---- MODULE Spec2Model ----
(***************************************************************************)
(* A model of moltopolparser/gmx.py: the section locator, the line         *)
(* normalizer, the record decoders, the aggregate builders, the Topology   *)
(* aggregate with its two pull operations and the coordinate file parser.  *)
(*                                                                         *)
(* Text is modelled by its tokens.  A line is a record                     *)
(*     [ind |-> leading whitespace present, toks |-> sequence of tokens]   *)
(* and its text is its tokens joined by single blanks, so two stripped     *)
(* lines are the same Python string exactly when they are the same record. *)
(* The lines of a coordinate file are sliced by column, so such a line is  *)
(* the sequence of its characters, the newline included.                   *)
(* Python indices are kept 0-based; PyAt and PySlice follow Python's       *)
(* rules for negative and out-of-range indices.                            *)
(***************************************************************************)
EXTENDS Integers, Sequences, FiniteSets, TLC

VARIABLES
    fs,        \* the files on disk: path -> sequence of raw lines
    top,       \* the Topology instance (NoObject before Topology.parser)
    ret,       \* outcome of the last call on the Topology lifecycle
    log,       \* the pull calls made so far, each with the Topology it left
    content,   \* input lines of a pure function application
    section,   \* section name given to the section locator
    out        \* result of the pure function applied last

vars == <<fs, top, ret, log, content, section, out>>

----------------------------------------------------------------------------
(* Bounds of the model *)

MaxLocLen == 4      \* longest line sequence handed to the section locator
MaxDecLen == 2      \* longest content handed to a record decoder
MaxBlockLen == 2    \* most data lines in the block handed to a record decoder
MaxCalls == 3       \* pull calls made on one Topology instance
MaxGroAtoms == 2    \* most atom lines in a coordinate file
MaxGroCalls == 2    \* calls of GroFile.parser on one coordinate file
MaxMolSections == 2 \* most section blocks written in one molecule type
MaxRawLen == 2      \* most raw lines handed to clean_lines

----------------------------------------------------------------------------
(* Python values *)

None == [some |-> FALSE]
Some(v) == [some |-> TRUE, val |-> v]

Ok(v) == [ok |-> TRUE, val |-> v]
Raise(e) == [ok |-> FALSE, err |-> e]

Min(S) == CHOOSE x \in S : \A y \in S : x <= y

\* a local variable: v is evaluated once and Body reads its value
Bind(v, Body(_)) == CHOOSE y \in {Body(w) : w \in {v}} : TRUE

\* s[i] with Python's index rules; the caller checks PyInRange first
PyInRange(s, i) == /\ i < Len(s)
                   /\ i >= 0 - Len(s)

PyAt(s, i) == IF i >= 0 THEN s[i + 1] ELSE s[Len(s) + i + 1]

PyClamp(s, i) ==
    IF i < 0
    THEN (IF Len(s) + i < 0 THEN 0 ELSE Len(s) + i)
    ELSE (IF i > Len(s) THEN Len(s) ELSE i)

\* s[a:b]
PySlice(s, a, b) == SubSeq(s, PyClamp(s, a) + 1, PyClamp(s, b))

\* s[a:]
PyFrom(s, a) == SubSeq(s, PyClamp(s, a) + 1, Len(s))

\* the list of the integers of S in increasing order
RECURSIVE Ascending(_)
Ascending(S) ==
    IF S = {} THEN <<>>
    ELSE LET m == Min(S) IN <<m>> \o Ascending(S \ {m})

\* list.index(x): the caller checks membership first
ListIndex(s, x) == Min({i \in 1..Len(s) : s[i] = x}) - 1

ListHas(s, x) == \E i \in 1..Len(s) : s[i] = x

\* list.remove(x) on a list that holds x: the first equal element goes
ListRemove(s, x) ==
    LET i == ListIndex(s, x) + 1
    IN  SubSeq(s, 1, i - 1) \o SubSeq(s, i + 1, Len(s))

----------------------------------------------------------------------------
(* Tokens *)

IntToks == {"0", "1", "2", "3", "4", "5", "9"}

IntOf(t) ==
    CASE t = "0" -> 0 [] t = "1" -> 1 [] t = "2" -> 2 [] t = "3" -> 3
      [] t = "4" -> 4 [] t = "5" -> 5 [] t = "9" -> 9

SectionWords ==
    {"system", "molecules", "moleculetype", "atoms", "bonds", "pairs",
     "angles", "dihedrals", "defaults", "atomtypes", "nonbond_params",
     "bondtypes", "angletypes", "dihedraltypes"}

UpperWords == {"SYSTEM", "MOLECULES", "MOLECULETYPE", "ATOMS"}

NameToks == {"DOPC", "DPPC", "W", "P5", "A", "Martini", "yes"}

\* tokens made of word characters only (regex \w+)
IsWord(t) == t \in IntToks \cup SectionWords \cup UpperWords \cup NameToks

\* str.lower() of a word
Lower(t) ==
    CASE t = "SYSTEM" -> "system"
      [] t = "MOLECULES" -> "molecules"
      [] t = "MOLECULETYPE" -> "moleculetype"
      [] t = "ATOMS" -> "atoms"
      [] t = "Martini" -> "martini"
      [] t = "DOPC" -> "dopc"
      [] t = "DPPC" -> "dppc"
      [] t = "W" -> "w"
      [] t = "P5" -> "p5"
      [] t = "A" -> "a"
      [] OTHER -> t

\* a header written without blanks is one token: the word inside its brackets
TightToks == {"[system]", "[molecules]", "[moleculetype]", "[atoms]"}

TightWord(t) ==
    CASE t = "[system]" -> "system"
      [] t = "[molecules]" -> "molecules"
      [] t = "[moleculetype]" -> "moleculetype"
      [] t = "[atoms]" -> "atoms"

\* tokens that begin with the comment marker ';' (no other token holds a ';')
SemiToks == {";", ";name"}

StarToks == {"*"}

\* tokens that begin with '#include', and tokens that begin with '#'
IncludeToks == {"#include"}
HashToks == IncludeToks \cup {"#define", "#ifdef"}

----------------------------------------------------------------------------
(* Lines *)

Line(ts) == [ind |-> FALSE, toks |-> ts]
Indented(ts) == [ind |-> TRUE, toks |-> ts]

\* str.strip()
Strip(l) == [ind |-> FALSE, toks |-> l.toks]

\* bool(line.strip())
NonBlank(l) == Len(l.toks) > 0

\* line.startswith(t) for a marker set: the text begins with the first token
\* unless whitespace precedes it
StartsWith(l, markers) ==
    /\ ~l.ind
    /\ Len(l.toks) > 0
    /\ l.toks[1] \in markers

\* str.split()
Split(l) == l.toks

\* the words w for which the text of the line holds '[' \s* w \s* ']'
HeaderWords(l) ==
    {Lower(l.toks[i + 1]) : i \in {j \in 1..(Len(l.toks) - 2) :
        /\ l.toks[j] = "["
        /\ IsWord(l.toks[j + 1])
        /\ l.toks[j + 2] = "]"}}
    \cup {TightWord(l.toks[i]) : i \in {j \in 1..Len(l.toks) : l.toks[j] \in TightToks}}

\* pattern.search(line) with pattern \[\s*name\s*\], re.IGNORECASE
MatchesSection(l, name) == Lower(name) \in HeaderWords(l)

\* re.search(r"\[\s*\w+\s*\]", line.lower())
MatchesAnySection(l) == HeaderWords(l) # {}

\* line.split(";")[0].strip(), as tokens
RECURSIVE BeforeSemi(_)
BeforeSemi(ts) ==
    IF ts = <<>> \/ Head(ts) \in SemiToks THEN <<>>
    ELSE <<Head(ts)>> \o BeforeSemi(Tail(ts))

filter_comment(l) == Line(BeforeSemi(l.toks))

----------------------------------------------------------------------------
(* Section locator *)

\* the tail of find_section_range, given its two index lists
RangeOf(lines, idx_section, idx_section_general) ==
    IF idx_section = <<>>
    THEN [start |-> -1, end |-> -1,
          idx_section |-> idx_section,
          idx_section_general |-> idx_section_general]
    ELSE LET start == idx_section[1]
             next_index == ListIndex(idx_section_general, start) + 1
         IN  [start |-> start,
              end |-> IF PyInRange(idx_section_general, next_index)
                      THEN PyAt(idx_section_general, next_index)
                      ELSE Len(lines),
              idx_section |-> idx_section,
              idx_section_general |-> idx_section_general]

\* [x for x in range(len(lines)) if pattern.search(lines[x])]
SectionIndices(lines, section_name) ==
    Ascending({x \in 0..(Len(lines) - 1) : MatchesSection(lines[x + 1], section_name)})

\* [x for x in range(len(lines)) if re.search(r"\[\s*\w+\s*\]", lines[x].lower())]
GeneralIndices(lines) ==
    Ascending({x \in 0..(Len(lines) - 1) : MatchesAnySection(lines[x + 1])})

\* find_section_range with its second list replaced by the first: a block
\* would then end at the next header of the same name
find_section_range_sameName(lines, section_name) ==
    Bind(SectionIndices(lines, section_name), LAMBDA idx_section :
        RangeOf(lines, idx_section, idx_section))

\* find_section_range that reports an absent section like an empty one
find_section_range_absentAsEmpty(lines, section_name) ==
    Bind(SectionIndices(lines, section_name), LAMBDA idx_section :
    Bind(GeneralIndices(lines), LAMBDA idx_section_general :
        IF idx_section = <<>>
        THEN [start |-> 0, end |-> 0,
              idx_section |-> idx_section,
              idx_section_general |-> idx_section_general]
        ELSE RangeOf(lines, idx_section, idx_section_general)))

find_section_range(lines, section_name) ==
    Bind(SectionIndices(lines, section_name), LAMBDA idx_section :
    Bind(GeneralIndices(lines), LAMBDA idx_section_general :
        RangeOf(lines, idx_section, idx_section_general)))

\* the loop header shared by the decoders of repeatable sections: the data
\* block of the occurrence at idx
data_target_of(lines, idx_section_general, idx) ==
    LET next_index == ListIndex(idx_section_general, idx) + 1
    IN  IF PyInRange(idx_section_general, next_index)
        THEN PySlice(lines, idx + 1, PyAt(idx_section_general, next_index))
        ELSE PyFrom(lines, idx + 1)

\* the data blocks of all occurrences of a section, in file order
section_blocks(lines, section_name) ==
    Bind(find_section_range(lines, section_name), LAMBDA r :
        [i \in 1..Len(r.idx_section) |->
            data_target_of(lines, r.idx_section_general, r.idx_section[i])])

----------------------------------------------------------------------------
(* Paths.  A path is the sequence of its components: "/work/sim/a.itp" is  *)
(* <<"", "work", "sim", "a.itp">>, and a relative path has a first         *)
(* component that is not empty.                                            *)

\* os.getcwd()
Cwd == <<"", "work">>

\* os.path.abspath
AbsPath(path) == IF path[1] = "" THEN path ELSE Cwd \o path

\* os.path.dirname
DirName(path) == SubSeq(path, 1, Len(path) - 1)

\* the path tokens of #include lines
PathToks == {"\"a.itp\"", "\"toppar/ff.itp\"", "\"nb.itp\"", "\"deep.itp\"",
             "\"system.top\""}

\* path[1:-1]: the token without its first and last character
Unquote(t) ==
    CASE t = "\"a.itp\"" -> <<"a.itp">>
      [] t = "\"toppar/ff.itp\"" -> <<"toppar", "ff.itp">>
      [] t = "\"nb.itp\"" -> <<"nb.itp">>
      [] t = "\"deep.itp\"" -> <<"deep.itp">>
      [] t = "\"system.top\"" -> <<"system.top">>

\* open(path): the file exists
CanOpen(path) == AbsPath(path) \in DOMAIN fs

\* f.readlines()
ReadLines(path) == fs[AbsPath(path)]

\* every path resolved against the directory of the root file instead of the
\* directory of the including file
ResolveInclude_rootDir(file, t) == Cwd \o <<"sim">> \o Unquote(t)

\* f"{os.path.dirname(os.path.abspath(file))}/{path[1:-1]}"
ResolveInclude(file, t) == DirName(AbsPath(file)) \o Unquote(t)

----------------------------------------------------------------------------
(* Line normalizer *)

\* the tuple comment_start_sysmbols
comment_start_sysmbols == SemiToks \cup StarToks \cup HashToks

\* [line.strip() for line in ls if line.strip() and
\*  not line.startswith(comment_start_sysmbols)]
RECURSIVE CleanList(_)
CleanList(ls) ==
    IF ls = <<>> THEN <<>>
    ELSE (IF NonBlank(Head(ls)) /\ ~StartsWith(Head(ls), comment_start_sysmbols)
          THEN <<Strip(Head(ls))>> ELSE <<>>) \o CleanList(Tail(ls))

\* the lines of the listed files, cleaned, in the order the files are listed
RECURSIVE CleanFiles(_)
CleanFiles(files) ==
    IF files = <<>> THEN <<>>
    ELSE CleanList(ReadLines(Head(files))) \o CleanFiles(Tail(files))

clean_lines(lines, files) ==
    IF \E i \in 1..Len(files) : ~CanOpen(files[i])
    THEN Raise("FileNotFoundError")
    ELSE Ok(CleanList(lines) \o CleanFiles(files))

----------------------------------------------------------------------------
(* Numbers *)

FloatOnlyToks == {"0.0", "0.5", "1.0", "72.0"}

\* tokens float() accepts
IsFloat(t) == t \in IntToks \cup FloatOnlyToks

\* float(), in thousandths
FloatOf(t) ==
    IF t \in IntToks THEN 1000 * IntOf(t)
    ELSE CASE t = "0.0" -> 0 [] t = "0.5" -> 500 [] t = "1.0" -> 1000
           [] t = "72.0" -> 72000

----------------------------------------------------------------------------
(* Building the keyword dictionary of one record from the parts of a line. *)
(* The entries of a dict display are evaluated in order, so the first      *)
(* entry that cannot be evaluated decides the exception.                   *)

\* "name": conv(parts[idx])
F(name, idx, conv) == [name |-> name, idx |-> idx, conv |-> conv, opt |-> FALSE, dflt |-> 0]
\* the same for a field declared Optional
FO(name, idx, conv) == [name |-> name, idx |-> idx, conv |-> conv, opt |-> TRUE, dflt |-> 0]
\* "name": None, or a field left to its default None
FN(name) == [name |-> name, idx |-> 0, conv |-> "none", opt |-> TRUE, dflt |-> 0]
\* an Optional field left to its integer default
FD(name, v) == [name |-> name, idx |-> 0, conv |-> "default", opt |-> TRUE, dflt |-> v]

FieldError(parts, f) ==
    IF f.conv \in {"none", "default"} THEN ""
    ELSE IF f.idx >= Len(parts) THEN "IndexError"
    ELSE IF f.conv \in {"int", "intnum"} /\ parts[f.idx + 1] \notin IntToks
         THEN "ValueError"
    ELSE IF f.conv = "float" /\ ~IsFloat(parts[f.idx + 1]) THEN "ValueError"
    ELSE ""

FieldValue(parts, f) ==
    IF f.conv = "none" THEN None
    ELSE IF f.conv = "default" THEN Some(f.dflt)
    ELSE LET t == parts[f.idx + 1]
             v == CASE f.conv = "str" -> t
                    [] f.conv = "int" -> IntOf(t)
                    [] f.conv = "float" -> FloatOf(t)
                    [] f.conv = "intnum" -> [isint |-> TRUE, v |-> IntOf(t)]
         IN  IF f.opt THEN Some(v) ELSE v

BuildData(parts, fields) ==
    LET bad == {i \in 1..Len(fields) : FieldError(parts, fields[i]) # ""}
    IN  IF \E i \in 1..Len(fields) : FieldError(parts, fields[i]) # ""
        THEN Raise(FieldError(parts, fields[Min(bad)]))
        ELSE Ok([n \in {fields[i].name : i \in 1..Len(fields)} |->
                   LET i == CHOOSE j \in 1..Len(fields) : fields[j].name = n
                   IN  FieldValue(parts, fields[i])])

\* s[:n]
Take(s, n) == SubSeq(s, 1, IF n < Len(s) THEN n ELSE Len(s))

RECURSIVE Flatten(_)
Flatten(ss) == IF ss = <<>> THEN <<>> ELSE Head(ss) \o Flatten(Tail(ss))

\* for target_line in data_target: instance_list.append(cls(**data)), where
\* rs[i] is the outcome of decoding line i: the first failure is raised
CollectRecords(rs) ==
    Bind({i \in 1..Len(rs) : ~rs[i].ok}, LAMBDA bad :
        IF bad # {} THEN Raise(rs[Min(bad)].err)
        ELSE Ok(Some([i \in 1..Len(rs) |-> rs[i].val])))

----------------------------------------------------------------------------
(* Record decoders of the force field *)

\* the defaults decoder answering none for an absent section, like the
\* decoders of the optional sections
MolForceFieldDefaults_parser_absentNone(lines) ==
    LET r == find_section_range(lines, "defaults")
    IN  IF r.start = -1 THEN Ok(None)
        ELSE IF ~PyInRange(lines, r.start + 1) THEN Raise("IndexError")
        ELSE LET parts == Split(Strip(PyAt(lines, r.start + 1)))
             IN  BuildData(parts,
                   <<F("nbfunc", 0, "int"),
                     F("comb_rule", 1, "int"),
                     IF Len(parts) > 2 THEN FO("gen_pairs", 2, "str") ELSE FN("gen_pairs"),
                     IF Len(parts) > 3 THEN FO("fudgeLJ", 3, "float") ELSE FN("fudgeLJ"),
                     IF Len(parts) > 4 THEN FO("fudgeQQ", 4, "float") ELSE FN("fudgeQQ")>>)

MolForceFieldDefaults_parser(lines) ==
    LET r == find_section_range(lines, "defaults")
    IN  IF r.start = -1 THEN Raise("ValueError")
        ELSE IF ~PyInRange(lines, r.start + 1) THEN Raise("IndexError")
        ELSE LET parts == Split(Strip(PyAt(lines, r.start + 1)))
             IN  BuildData(parts,
                   <<F("nbfunc", 0, "int"),
                     F("comb_rule", 1, "int"),
                     IF Len(parts) > 2 THEN FO("gen_pairs", 2, "str") ELSE FN("gen_pairs"),
                     IF Len(parts) > 3 THEN FO("fudgeLJ", 3, "float") ELSE FN("fudgeLJ"),
                     IF Len(parts) > 4 THEN FO("fudgeQQ", 4, "float") ELSE FN("fudgeQQ")>>)

\* one line of an [ atomtypes ] block
AtomtypeLine(l) ==
    LET parts7 == Take(Split(l), 7)
    IN  IF parts7 = <<>> THEN Raise("IndexError")
        ELSE LET parts == IF parts7[Len(parts7)] \in SemiToks
                          THEN SubSeq(parts7, 1, Len(parts7) - 1) ELSE parts7
             IN  IF Len(parts) = 7
                 THEN BuildData(parts,
                        <<F("name", 0, "str"), FO("at_num", 1, "int"),
                          F("mass", 2, "float"), F("charge", 3, "float"),
                          F("ptype", 4, "str"), F("sigma", 5, "float"),
                          F("epsilon", 6, "float")>>)
                 ELSE IF Len(parts) = 6
                 THEN BuildData(parts,
                        <<F("name", 0, "str"), F("mass", 1, "float"),
                          F("charge", 2, "float"), F("ptype", 3, "str"),
                          F("sigma", 4, "float"), F("epsilon", 5, "float"),
                          FN("at_num")>>)
                 ELSE Raise("ValueError")

MolForceFieldAtomtype_parser(lines) ==
    IF find_section_range(lines, "atomtypes").start = -1 THEN Raise("ValueError")
    ELSE Bind(Flatten(section_blocks(lines, "atomtypes")), LAMBDA ls :
             CollectRecords([i \in 1..Len(ls) |-> AtomtypeLine(ls[i])]))

NonbondParamLine(l) ==
    BuildData(Take(Split(l), 5),
      <<F("ai", 0, "str"), F("aj", 1, "str"), F("func", 2, "int"),
        F("c6", 3, "float"), F("c12", 4, "float")>>)

\* MolForceFieldNonbondParam.parser raising for an absent section
MolForceFieldNonbondParam_parser_absentRaises(lines) ==
    IF find_section_range(lines, "nonbond_params").start = -1 THEN Raise("ValueError")
    ELSE Bind(Flatten(section_blocks(lines, "nonbond_params")), LAMBDA ls :
             CollectRecords([i \in 1..Len(ls) |-> NonbondParamLine(ls[i])]))

MolForceFieldNonbondParam_parser(lines) ==
    IF find_section_range(lines, "nonbond_params").start = -1 THEN Ok(None)
    ELSE Bind(Flatten(section_blocks(lines, "nonbond_params")), LAMBDA ls :
             CollectRecords([i \in 1..Len(ls) |-> NonbondParamLine(ls[i])]))

BondtypeLine(l) ==
    BuildData(Take(Split(l), 5),
      <<F("ai", 0, "str"), F("aj", 1, "str"), F("func", 2, "int"),
        F("b0", 3, "float"), F("kb", 4, "float")>>)

MolForceFieldBondtype_parser(lines) ==
    IF find_section_range(lines, "bondtypes").start = -1 THEN Ok(None)
    ELSE Bind(Flatten(section_blocks(lines, "bondtypes")), LAMBDA ls :
             CollectRecords([i \in 1..Len(ls) |-> BondtypeLine(ls[i])]))

AngletypeLine(l) ==
    BuildData(Take(Split(l), 6),
      <<F("ai", 0, "str"), F("aj", 1, "str"), F("ak", 2, "str"),
        F("func", 3, "int"), F("th0", 4, "float"), F("cth", 5, "float")>>)

MolForceFieldAngletype_parser(lines) ==
    IF find_section_range(lines, "angletypes").start = -1 THEN Ok(None)
    ELSE Bind(Flatten(section_blocks(lines, "angletypes")), LAMBDA ls :
             CollectRecords([i \in 1..Len(ls) |-> AngletypeLine(ls[i])]))

\* the validator without the test that c2 is an integer for func 4 and 9
MolForceFieldDihedraltype_check_anyC2(values) ==
    /\ values.func \in {3, 4, 5, 9}
    /\ values.func \in {3, 5} =>
         /\ values.c0.some /\ values.c1.some /\ values.c2.some
         /\ values.c3.some /\ values.c4.some /\ values.c5.some
    /\ values.func \in {4, 9} =>
         /\ values.c0.some /\ values.c1.some
         /\ values.c2.some
    /\ values.func \notin {3, 5} =>
         /\ ~values.c3.some /\ ~values.c4.some /\ ~values.c5.some

\* MolForceFieldDihedraltype.check_func_and_coefficients: TRUE when the
\* values pass
MolForceFieldDihedraltype_check(values) ==
    /\ values.func \in {3, 4, 5, 9}
    /\ values.func \in {3, 5} =>
         /\ values.c0.some /\ values.c1.some /\ values.c2.some
         /\ values.c3.some /\ values.c4.some /\ values.c5.some
    /\ values.func \in {4, 9} =>
         /\ values.c0.some /\ values.c1.some
         /\ values.c2.some
         /\ values.c2.val.isint
    /\ values.func \notin {3, 5} =>
         /\ ~values.c3.some /\ ~values.c4.some /\ ~values.c5.some

\* MolForceFieldDihedraltype(**values)
MolForceFieldDihedraltype_new(values) ==
    IF MolForceFieldDihedraltype_check(values) THEN Ok(values)
    ELSE Raise("ValidationError")

DihedraltypeLine(l) ==
    LET parts == Split(filter_comment(l))
        data ==
          IF Len(parts) = 8
          THEN BuildData(parts,
                 <<F("ai", 0, "str"), F("aj", 1, "str"), F("ak", 2, "str"),
                   F("al", 3, "str"), F("func", 4, "int"),
                   FO("c0", 5, "float"), FO("c1", 6, "float"), FO("c2", 7, "intnum"),
                   FN("c3"), FN("c4"), FN("c5")>>)
          ELSE IF Len(parts) = 11
          THEN BuildData(parts,
                 <<F("ai", 0, "str"), F("aj", 1, "str"), F("ak", 2, "str"),
                   F("al", 3, "str"), F("func", 4, "int"),
                   FO("c0", 5, "float"), FO("c1", 6, "float"), FO("c2", 7, "intnum"),
                   FO("c3", 8, "float"), FO("c4", 9, "float"), FO("c5", 10, "float")>>)
          ELSE Raise("ValueError")
    IN  IF ~data.ok THEN data
        ELSE MolForceFieldDihedraltype_new(data.val)

MolForceFieldDihedraltype_parser(lines) ==
    IF find_section_range(lines, "dihedraltypes").start = -1 THEN Ok(None)
    ELSE Bind(Flatten(section_blocks(lines, "dihedraltypes")), LAMBDA ls :
             CollectRecords([i \in 1..Len(ls) |-> DihedraltypeLine(ls[i])]))

----------------------------------------------------------------------------
(* Record decoders of the molecule topology *)

MolTopHeader_parser(lines) ==
    LET r == find_section_range(lines, "moleculetype")
    IN  IF r.start = -1 THEN Raise("ValueError")
        ELSE IF ~PyInRange(lines, r.start + 1) THEN Raise("IndexError")
        ELSE BuildData(Split(Strip(PyAt(lines, r.start + 1))),
               <<F("name", 0, "str"), F("nrexcl", 1, "int")>>)

\* the data lines of every occurrence of the section
first_block_allOccurrences(lines, section_name) ==
    Flatten(section_blocks(lines, section_name))

\* data_target = content[start + 1 : end] of the first occurrence
first_block(lines, section_name) ==
    Bind(find_section_range(lines, section_name), LAMBDA r :
        PySlice(lines, r.start + 1, r.end))

AtomLine(l) ==
    BuildData(Take(Split(filter_comment(l)), 7),
      <<F("id", 0, "int"), F("atom_type", 1, "str"), F("resnr", 2, "int"),
        F("residu", 3, "str"), F("atom", 4, "str"), F("cgnr", 5, "int"),
        F("charge", 6, "float")>>)

MolTopAtom_parser(lines) ==
    IF find_section_range(lines, "atoms").start = -1 THEN Ok(None)
    ELSE Bind(first_block(lines, "atoms"), LAMBDA ls :
             CollectRecords([i \in 1..Len(ls) |-> AtomLine(ls[i])]))

\* a bond line of four tokens taken as a format error
BondLine_noFour(l) ==
    LET parts == Split(filter_comment(l))
    IN  IF Len(parts) = 5
        THEN BuildData(parts,
               <<F("ai", 0, "int"), F("aj", 1, "int"), FO("func", 2, "int"),
                 FO("c0", 3, "float"), FO("c1", 4, "float")>>)
        ELSE IF Len(parts) = 3
        THEN BuildData(parts,
               <<F("ai", 0, "int"), F("aj", 1, "int"), FO("func", 2, "int"),
                 FN("c0"), FN("c1")>>)
        ELSE IF Len(parts) = 2
        THEN BuildData(parts,
               <<F("ai", 0, "int"), F("aj", 1, "int"), FD("func", 1),
                 FN("c0"), FN("c1")>>)
        ELSE Raise("ValueError")

BondLine(l) ==
    LET parts == Split(filter_comment(l))
    IN  IF Len(parts) = 5
        THEN BuildData(parts,
               <<F("ai", 0, "int"), F("aj", 1, "int"), FO("func", 2, "int"),
                 FO("c0", 3, "float"), FO("c1", 4, "float")>>)
        ELSE IF Len(parts) = 3 \/ Len(parts) = 4
        THEN BuildData(parts,
               <<F("ai", 0, "int"), F("aj", 1, "int"), FO("func", 2, "int"),
                 FN("c0"), FN("c1")>>)
        ELSE IF Len(parts) = 2
        THEN BuildData(parts,
               <<F("ai", 0, "int"), F("aj", 1, "int"), FD("func", 1),
                 FN("c0"), FN("c1")>>)
        ELSE Raise("ValueError")

\* the return statements sit inside the loop body: the first data line ends
\* the call, and an empty block falls off the end of the function
MolTopBond_parser(lines) ==
    IF find_section_range(lines, "bonds").start = -1 THEN Ok(None)
    ELSE Bind(first_block(lines, "bonds"), LAMBDA ls :
             IF ls = <<>> THEN Ok(None)
             ELSE Bind(BondLine(ls[1]), LAMBDA d :
                      IF d.ok THEN Ok(Some(<<d.val>>)) ELSE d))

PairLine(l) ==
    BuildData(Split(filter_comment(l)), <<F("ai", 0, "int"), F("aj", 1, "int")>>)

MolTopPair_parser(lines) ==
    IF find_section_range(lines, "pairs").start = -1 THEN Ok(None)
    ELSE Bind(first_block(lines, "pairs"), LAMBDA ls :
             CollectRecords([i \in 1..Len(ls) |-> PairLine(ls[i])]))

\* an angle line that must have four or six tokens
AngleLine_strict(l) ==
    LET parts == Split(filter_comment(l))
    IN  IF Len(parts) = 6
        THEN BuildData(parts,
               <<F("ai", 0, "int"), F("aj", 1, "int"), F("ak", 2, "int"),
                 F("func", 3, "int"), FO("c0", 4, "float"), FO("c1", 5, "float")>>)
        ELSE IF Len(parts) = 4
        THEN BuildData(parts,
               <<F("ai", 0, "int"), F("aj", 1, "int"), F("ak", 2, "int"),
                 F("func", 3, "int"), FN("c0"), FN("c1")>>)
        ELSE Raise("ValueError")

AngleLine(l) ==
    LET parts == Split(filter_comment(l))
    IN  IF Len(parts) = 6
        THEN BuildData(parts,
               <<F("ai", 0, "int"), F("aj", 1, "int"), F("ak", 2, "int"),
                 F("func", 3, "int"), FO("c0", 4, "float"), FO("c1", 5, "float")>>)
        ELSE BuildData(parts,
               <<F("ai", 0, "int"), F("aj", 1, "int"), F("ak", 2, "int"),
                 F("func", 3, "int"), FN("c0"), FN("c1")>>)

MolTopAngle_parser(lines) ==
    IF find_section_range(lines, "angles").start = -1 THEN Ok(None)
    ELSE Bind(first_block(lines, "angles"), LAMBDA ls :
             CollectRecords([i \in 1..Len(ls) |-> AngleLine(ls[i])]))

\* the validator of the force field dihedral types put on topology dihedrals
MolTopDihedral_check_allRequired(values) ==
    /\ values.func \in {3, 5} =>
         /\ values.c0.some /\ values.c1.some /\ values.c2.some
         /\ values.c3.some /\ values.c4.some /\ values.c5.some
    /\ values.func \notin {3, 5} =>
         /\ ~values.c3.some /\ ~values.c4.some /\ ~values.c5.some

\* MolTopDihedral.check_func_and_coefficients: TRUE when the values pass
MolTopDihedral_check(values) ==
    values.func \notin {3, 5} =>
        /\ ~values.c3.some /\ ~values.c4.some /\ ~values.c5.some

\* MolTopDihedral(**values)
MolTopDihedral_new(values) ==
    IF MolTopDihedral_check(values) THEN Ok(values)
    ELSE Raise("ValidationError")

\* a dihedral line whose eleven tokens are not told from the other counts
DihedralLine_noEleven(l) ==
    LET parts == Split(filter_comment(l))
        data ==
          IF Len(parts) = 8
          THEN BuildData(parts,
                 <<F("ai", 0, "int"), F("aj", 1, "int"), F("ak", 2, "int"),
                   F("al", 3, "int"), F("func", 4, "int"),
                   FO("c0", 5, "float"), FO("c1", 6, "float"), FO("c2", 7, "float"),
                   FN("c3"), FN("c4"), FN("c5")>>)
          ELSE BuildData(parts,
                 <<F("ai", 0, "int"), F("aj", 1, "int"), F("ak", 2, "int"),
                   F("al", 3, "int"), F("func", 4, "int"),
                   FN("c0"), FN("c1"), FN("c2"), FN("c3"), FN("c4"), FN("c5")>>)
    IN  IF ~data.ok THEN data
        ELSE MolTopDihedral_new(data.val)

DihedralLine(l) ==
    LET parts == Split(filter_comment(l))
        data ==
          IF Len(parts) = 8
          THEN BuildData(parts,
                 <<F("ai", 0, "int"), F("aj", 1, "int"), F("ak", 2, "int"),
                   F("al", 3, "int"), F("func", 4, "int"),
                   FO("c0", 5, "float"), FO("c1", 6, "float"), FO("c2", 7, "float"),
                   FN("c3"), FN("c4"), FN("c5")>>)
          ELSE IF Len(parts) = 11
          THEN BuildData(parts,
                 <<F("ai", 0, "int"), F("aj", 1, "int"), F("ak", 2, "int"),
                   F("al", 3, "int"), F("func", 4, "int"),
                   FO("c0", 5, "float"), FO("c1", 6, "float"), FO("c2", 7, "float"),
                   FO("c3", 8, "float"), FO("c4", 9, "float"), FO("c5", 10, "float")>>)
          ELSE BuildData(parts,
                 <<F("ai", 0, "int"), F("aj", 1, "int"), F("ak", 2, "int"),
                   F("al", 3, "int"), F("func", 4, "int"),
                   FN("c0"), FN("c1"), FN("c2"), FN("c3"), FN("c4"), FN("c5")>>)
    IN  IF ~data.ok THEN data
        ELSE MolTopDihedral_new(data.val)

MolTopDihedral_parser(lines) ==
    IF find_section_range(lines, "dihedrals").start = -1 THEN Ok(None)
    ELSE Bind(Flatten(section_blocks(lines, "dihedrals")), LAMBDA ls :
             CollectRecords([i \in 1..Len(ls) |-> DihedralLine(ls[i])]))

----------------------------------------------------------------------------
(* Aggregate builders *)

\* the first exception among the outcomes rs, taken in order
FirstError(rs) == rs[Min({i \in 1..Len(rs) : ~rs[i].ok})].err

MolForceField_parser(content_lines, content_files) ==
    Bind(clean_lines(content_lines, content_files), LAMBDA c :
    IF ~c.ok THEN c
    ELSE Bind(<<MolForceFieldDefaults_parser(c.val),
                MolForceFieldAtomtype_parser(c.val),
                MolForceFieldNonbondParam_parser(c.val),
                MolForceFieldBondtype_parser(c.val),
                MolForceFieldAngletype_parser(c.val),
                MolForceFieldDihedraltype_parser(c.val)>>, LAMBDA rs :
         IF \E i \in 1..Len(rs) : ~rs[i].ok THEN Raise(FirstError(rs))
         ELSE Ok([defaults |-> rs[1].val,
                  atomtypes |-> rs[2].val,
                  nonbond_params |-> rs[3].val,
                  bondtypes |-> rs[4].val,
                  angletypes |-> rs[5].val,
                  dihedraltypes |-> rs[6].val])))

\* mt_section running from the header to the end of the content
mt_section_of_toEnd(mt_content, idx_section, idx) == PyFrom(mt_content, idx)

\* mt_section of the occurrence at idx: up to the next [ moleculetype ]
mt_section_of(mt_content, idx_section, idx) ==
    LET next_index == ListIndex(idx_section, idx) + 1
    IN  IF PyInRange(idx_section, next_index)
        THEN PySlice(mt_content, idx, PyAt(idx_section, next_index))
        ELSE PyFrom(mt_content, idx)

\* the body of the loop of MolTop.parser for one mt_section: the decoders
\* run in the order header, atoms, bonds, angles, pairs, dihedrals
MolTop_of(mt_section) ==
    Bind(<<MolTopHeader_parser(mt_section),
           MolTopAtom_parser(mt_section),
           MolTopBond_parser(mt_section),
           MolTopAngle_parser(mt_section),
           MolTopPair_parser(mt_section),
           MolTopDihedral_parser(mt_section)>>, LAMBDA rs :
    IF \E i \in 1..Len(rs) : ~rs[i].ok THEN Raise(FirstError(rs))
    \* atoms: List[MolTopAtom] is not Optional: MolTop(**data) rejects None
    ELSE IF ~rs[2].val.some THEN Raise("ValidationError")
    ELSE Ok([header |-> rs[1].val,
             atoms |-> rs[2].val.val,
             bonds |-> rs[3].val,
             pairs |-> rs[5].val,
             angles |-> rs[4].val,
             dihedrals |-> rs[6].val]))

\* MolTop.parser keeping only the molecule types named in molecule_types
MolTop_parser_filtered(content_lines, content_files, molecule_types) ==
    Bind(clean_lines(content_lines, content_files), LAMBDA c :
    IF ~c.ok THEN c
    ELSE Bind(find_section_range(c.val, "moleculetype"), LAMBDA r :
         IF r.start = -1 THEN Ok(None)
         ELSE Bind(SelectSeq([i \in 1..Len(r.idx_section) |->
                                mt_section_of(c.val, r.idx_section, r.idx_section[i])],
                             LAMBDA sec : Len(sec) > 1 /\ Len(sec[2].toks) > 0
                                          /\ sec[2].toks[1] \in molecule_types),
                   LAMBDA secs :
                   CollectRecords([i \in 1..Len(secs) |-> MolTop_of(secs[i])]))))

MolTop_parser(content_lines, content_files, molecule_types) ==
    Bind(clean_lines(content_lines, content_files), LAMBDA c :
    IF ~c.ok THEN c
    ELSE Bind(find_section_range(c.val, "moleculetype"), LAMBDA r :
         IF r.start = -1 THEN Ok(None)
         ELSE Bind([i \in 1..Len(r.idx_section) |->
                      mt_section_of(c.val, r.idx_section, r.idx_section[i])],
                   LAMBDA secs :
                   CollectRecords([i \in 1..Len(secs) |-> MolTop_of(secs[i])]))))

----------------------------------------------------------------------------
(* Topology.parser *)

\* [line.strip() for line in lines if not line.startswith(";") and line.strip()]
RECURSIVE TopLines(_)
TopLines(raw) ==
    IF raw = <<>> THEN <<>>
    ELSE (IF ~StartsWith(Head(raw), SemiToks) /\ NonBlank(Head(raw))
          THEN <<Strip(Head(raw))>> ELSE <<>>) \o TopLines(Tail(raw))

\* [line.strip() for line in itplines if not line.startswith(";")]
RECURSIVE ItpLines(_)
ItpLines(raw) ==
    IF raw = <<>> THEN <<>>
    ELSE (IF ~StartsWith(Head(raw), SemiToks)
          THEN <<Strip(Head(raw))>> ELSE <<>>) \o ItpLines(Tail(raw))

\* [line for line in lines if line.startswith("#include")]
RECURSIVE IncludeLines(_)
IncludeLines(ls) ==
    IF ls = <<>> THEN <<>>
    ELSE (IF StartsWith(Head(ls), IncludeToks) THEN <<Head(ls)>> ELSE <<>>)
         \o IncludeLines(Tail(ls))

\* inlines.remove(x) for each x of xs in turn; ValueError when x is not there
RECURSIVE RemoveEach(_, _)
RemoveEach(inl, xs) ==
    IF xs = <<>> THEN Ok(inl)
    ELSE IF ~ListHas(inl, Head(xs)) THEN Raise("ValueError")
    ELSE RemoveEach(ListRemove(inl, Head(xs)), Tail(xs))

\* molname, molnum = line.split()[:2]; {molname: int(molnum)}
MoleculeLine(l) ==
    LET parts == Take(Split(l), 2)
    IN  IF Len(parts) # 2 THEN Raise("ValueError")
        ELSE IF parts[2] \notin IntToks THEN Raise("ValueError")
        ELSE Ok([name |-> parts[1], count |-> IntOf(parts[2])])

\* the loop over the #include lines of the root file: each line gives a path
\* and is then removed from inlines
RECURSIVE RootIncludeLoop(_, _, _, _)
RootIncludeLoop(filename, targets, inl, paths) ==
    IF targets = <<>> THEN Ok([inlines |-> inl, itp_paths |-> paths])
    ELSE LET line == Head(targets)
             parts == BeforeSemi(Split(line))
         IN  IF Len(parts) < 2 THEN Raise("IndexError")
             ELSE IF ~ListHas(inl, line) THEN Raise("ValueError")
             ELSE RootIncludeLoop(filename, Tail(targets), ListRemove(inl, line),
                                  Append(paths, ResolveInclude(filename, parts[2])))

\* a first-level file that cannot be opened is passed over
SecondLayerOf_skipMissing(itp_path) ==
    IF ~CanOpen(itp_path) THEN Ok(<<>>)
    ELSE Bind(IncludeLines(ItpLines(ReadLines(itp_path))), LAMBDA targets :
             Ok([i \in 1..Len(targets) |->
                   ResolveInclude(itp_path, BeforeSemi(Split(targets[i]))[2])]))

\* the paths one first-level file adds to itp_paths
SecondLayerOf(itp_path) ==
    IF ~CanOpen(itp_path) THEN Raise("FileNotFoundError")
    ELSE Bind(IncludeLines(ItpLines(ReadLines(itp_path))), LAMBDA targets :
             IF \E i \in 1..Len(targets) : Len(BeforeSemi(Split(targets[i]))) < 2
             THEN Raise("IndexError")
             ELSE Ok([i \in 1..Len(targets) |->
                        ResolveInclude(itp_path, BeforeSemi(Split(targets[i]))[2])]))

\* what a run of the loop leaves: its outcome and the files it has opened, in
\* the order of the open() calls
Ran(res, opened) == [res |-> res, opened |-> opened]

\* the iterations of "for itp_path in itp_paths.copy()" that visit todo, the
\* part of the copy not yet visited; itp_paths is the list being appended to
RECURSIVE SecondLayerLoop(_, _, _)
SecondLayerLoop(todo, itp_paths, opened) ==
    IF todo = <<>> THEN Ran(Ok(itp_paths), opened)
    ELSE Bind(SecondLayerOf(Head(todo)), LAMBDA r :
         Bind(IF CanOpen(Head(todo)) THEN Append(opened, AbsPath(Head(todo)))
              ELSE opened, LAMBDA o :
             IF ~r.ok THEN Ran(r, o)
             ELSE SecondLayerLoop(Tail(todo), itp_paths \o r.val, o)))

\* a loop that goes on to visit the entries the first pass has appended
SecondLayer_thirdLayer(itp_paths) ==
    Bind(SecondLayerLoop(itp_paths, itp_paths, <<>>), LAMBDA first :
        IF ~first.res.ok THEN first
        ELSE SecondLayerLoop(PyFrom(first.res.val, Len(itp_paths)),
                             first.res.val, first.opened))

\* for itp_path in itp_paths.copy(): ... itp_paths.append(...)
SecondLayer(itp_paths) ==
    SecondLayerLoop(itp_paths, itp_paths, <<>>)

\* the part of Topology.parser that follows the [ molecules ] loop, with
\* inlines as the removals so far have left it
IncludeResolution(filename, lines, inlines) ==
    Bind(IncludeLines(lines), LAMBDA target_lines :
    Bind(RootIncludeLoop(filename, target_lines, inlines, <<>>), LAMBDA inc :
    IF ~inc.ok THEN Ran(inc, <<>>)
    \* itp_paths = None, then itp_paths.copy()
    ELSE IF target_lines = <<>> THEN Ran(Raise("AttributeError"), <<>>)
    ELSE Bind(SecondLayer(inc.val.itp_paths), LAMBDA all :
         IF ~all.res.ok THEN all
         ELSE Ran(Ok([include_itps |-> Some(all.res.val),
                      inlines |-> IF inc.val.inlines = <<>> THEN None
                                  ELSE Some(inc.val.inlines)]),
                  all.opened))))

\* data_target = lines[start + 1: end] if end else lines[start + 1:]
molecules_block(lines, mol) ==
    IF mol.end # 0
    THEN PySlice(lines, mol.start + 1, mol.end)
    ELSE PyFrom(lines, mol.start + 1)

\* the molecules kept in a mapping by name: a repeated name updates the count
\* of its first entry
system_molecules_byName(data_target) ==
    LET firsts == {i \in 1..Len(data_target) :
                     \A j \in 1..(i - 1) : Split(data_target[j])[1] # Split(data_target[i])[1]}
        last(i) == CHOOSE k \in i..Len(data_target) :
                     /\ Split(data_target[k])[1] = Split(data_target[i])[1]
                     /\ \A m \in (k + 1)..Len(data_target) :
                           Split(data_target[m])[1] # Split(data_target[i])[1]
        order == Ascending(firsts)
    IN  [i \in 1..Len(order) |-> MoleculeLine(data_target[last(order[i])])]

\* for line in data_target: system_molecules.append({molname: int(molnum)})
system_molecules_of(data_target) ==
    [i \in 1..Len(data_target) |-> MoleculeLine(data_target[i])]

\* the outcome of Topology.parser and the files the call has opened
Topology_parser_run(filename) ==
    IF ~CanOpen(filename) THEN Ran(Raise("FileNotFoundError"), <<>>)
    ELSE
    Bind(<<AbsPath(filename)>>, LAMBDA root :
    Bind(TopLines(ReadLines(filename)), LAMBDA lines :
    Bind(find_section_range(lines, "system"), LAMBDA sys :
    IF ~PyInRange(lines, sys.start + 1) THEN Ran(Raise("IndexError"), root)
    ELSE
    Bind(RemoveEach(lines, <<PyAt(lines, sys.start), PyAt(lines, sys.start + 1)>>),
         LAMBDA inl1 :
    IF ~inl1.ok THEN Ran(inl1, root)
    ELSE
    Bind(find_section_range(lines, "molecules"), LAMBDA mol :
    Bind(molecules_block(lines, mol), LAMBDA data_target :
    Bind(system_molecules_of(data_target), LAMBDA system_molecules :
    IF \E i \in 1..Len(system_molecules) : ~system_molecules[i].ok
    THEN Ran(Raise(FirstError(system_molecules)), root)
    ELSE
    Bind(RemoveEach(inl1.val, Append(data_target, PyAt(lines, mol.start))),
         LAMBDA inl2 :
    IF ~inl2.ok THEN Ran(inl2, root)
    ELSE
    Bind(IncludeResolution(filename, lines, inl2.val), LAMBDA inc :
    IF ~inc.res.ok THEN Ran(inc.res, root \o inc.opened)
    ELSE Ran(Ok([system |-> PyAt(lines, sys.start + 1),
                 molecules |-> [i \in 1..Len(system_molecules) |-> system_molecules[i].val],
                 include_itps |-> inc.res.val.include_itps,
                 inlines |-> inc.res.val.inlines,
                 forcefield |-> None,
                 molecule_topologies |-> None]),
             root \o inc.opened))))))))))

\* what Topology.parser returns or raises
Topology_parser(filename) == Topology_parser_run(filename).res

----------------------------------------------------------------------------
(* The section locator applied to bounded line sequences *)

NoObject == [kind |-> "none"]
NotApplied == [op |-> "none"]

\* every sequence over S of length at most n
SeqsUpTo(S, n) == UNION {[1..k -> S] : k \in 0..n}

HdrMoleculetype == Line(<<"[", "moleculetype", "]">>)
HdrMoleculetypeTight == Line(<<"[moleculetype]">>)
HdrAtoms == Line(<<"[", "atoms", "]">>)
HdrAtomsUpper == Line(<<"[", "ATOMS", "]">>)
DataDOPC1 == Line(<<"DOPC", "1">>)

LocLines == {HdrMoleculetype, HdrMoleculetypeTight, HdrAtoms, HdrAtomsUpper, DataDOPC1}
LocSections == {"moleculetype", "atoms", "dihedrals"}

InitLocator ==
    /\ fs = <<>>
    /\ top = NoObject
    /\ ret = NotApplied
    /\ log = <<>>
    /\ content \in SeqsUpTo(LocLines, MaxLocLen)
    /\ section \in LocSections
    /\ out = NotApplied

ApplyFindSectionRange ==
    /\ out = NotApplied
    /\ out' = [op |-> "find_section_range",
               range |-> find_section_range(content, section)]
    /\ UNCHANGED <<fs, top, ret, log, content, section>>

ApplySectionBlocks ==
    /\ out = NotApplied
    /\ out' = [op |-> "section_blocks",
               blocks |-> section_blocks(content, section)]
    /\ UNCHANGED <<fs, top, ret, log, content, section>>

NextLocator == ApplyFindSectionRange \/ ApplySectionBlocks

SpecLocator == InitLocator /\ [][NextLocator]_vars

\* 0-based indices of the lines that hold a header of the section
Occurrences(lines, name) ==
    {s \in 0..(Len(lines) - 1) : MatchesSection(lines[s + 1], name)}

\* 0-based index of the first bracketed header after s, or the line count
BlockEnd(lines, s) ==
    LET later == {j \in (s + 1)..(Len(lines) - 1) : MatchesAnySection(lines[j + 1])}
    IN  IF later = {} THEN Len(lines) ELSE Min(later)

\* C8: the data block of every occurrence s of a section starts at s+1 and
\* ends just before the first bracketed header of any name after s, or at
\* the end of input; find_section_range reports that end for the first
\* occurrence.
C8_BlockEndsAtNextHeader ==
    /\ out.op = "section_blocks" =>
          /\ Len(out.blocks) = Cardinality(Occurrences(content, section))
          /\ \A i \in 1..Len(out.blocks) :
                LET s == Ascending(Occurrences(content, section))[i]
                IN  out.blocks[i] = SubSeq(content, s + 2, BlockEnd(content, s))
    /\ (out.op = "find_section_range" /\ Occurrences(content, section) # {}) =>
          /\ out.range.start = Min(Occurrences(content, section))
          /\ out.range.end = BlockEnd(content, out.range.start)

\* two [ moleculetype ] headers with an [ atoms ] header between them: the
\* first block stops at the [ atoms ] header
C8_Witness ==
    /\ out.op = "section_blocks"
    /\ section = "moleculetype"
    /\ content = <<HdrMoleculetype, DataDOPC1, HdrAtoms, HdrMoleculetype>>
    /\ out.blocks = <<(<<DataDOPC1>>), <<>> >>

\* C9: find_section_range answers (-1, -1) exactly when no line holds the
\* header of the section; a header followed by no data line gives start >= 0
\* and end = start + 1, which is the line count when the header is last.
C9_AbsentVersusEmpty ==
    out.op = "find_section_range" =>
        /\ (out.range.start = -1 /\ out.range.end = -1)
              <=> Occurrences(content, section) = {}
        /\ out.range.start = -1 <=> Occurrences(content, section) = {}
        /\ Occurrences(content, section) # {} =>
              LET s == Min(Occurrences(content, section))
              IN  /\ out.range.start = s
                  /\ (s + 1 = Len(content) \/ MatchesAnySection(content[s + 2])) =>
                        out.range.end = s + 1
                  /\ s + 1 = Len(content) => out.range.end = Len(content)

\* the header is the last line: present, empty, and told apart from absent
C9_Witness ==
    /\ out.op = "find_section_range"
    /\ section = "atoms"
    /\ content = <<DataDOPC1, HdrAtomsUpper>>
    /\ out.range.start = 1
    /\ out.range.end = 2

----------------------------------------------------------------------------
(* The Topology aggregate and its pull operations *)

ForceFieldExists == "ValueError: Force field already exists in the topology."
MolTopsExist == "ValueError: Molecule topologies already exist in the topology."

\* x or []
OrEmpty(x) == IF x.some /\ x.val # <<>> THEN x.val ELSE <<>>

\* the property moleculetypes: the molecule names without duplicates
moleculetypes(t) == {t.molecules[i].name : i \in 1..Len(t.molecules)}

\* pull_forcefield without the test that the field is still None
pull_forcefield_noGuard(t) ==
    Bind(MolForceField_parser(OrEmpty(t.inlines), OrEmpty(t.include_itps)), LAMBDA r :
        IF r.ok
        THEN [top |-> [t EXCEPT !.forcefield = Some(r.val)], ret |-> Ok(None)]
        ELSE [top |-> t, ret |-> r])

\* the Topology a call leaves and what the call returns or raises
pull_forcefield(t) ==
    IF ~t.forcefield.some
    THEN Bind(MolForceField_parser(OrEmpty(t.inlines), OrEmpty(t.include_itps)),
              LAMBDA r :
              IF r.ok
              THEN [top |-> [t EXCEPT !.forcefield = Some(r.val)], ret |-> Ok(None)]
              ELSE [top |-> t, ret |-> r])
    ELSE [top |-> t, ret |-> Raise(ForceFieldExists)]

\* pull_molecule_topologies that also clears the forcefield field
pull_molecule_topologies_clearsForcefield(t) ==
    IF ~t.molecule_topologies.some
    THEN Bind(MolTop_parser(OrEmpty(t.inlines), OrEmpty(t.include_itps),
                            moleculetypes(t)), LAMBDA r :
              IF r.ok
              THEN [top |-> [t EXCEPT !.molecule_topologies = r.val,
                                      !.forcefield = None], ret |-> Ok(r.val)]
              ELSE [top |-> [t EXCEPT !.molecule_topologies = Some(<<>>)], ret |-> r])
    ELSE [top |-> t, ret |-> Raise(MolTopsExist)]

pull_molecule_topologies(t) ==
    IF ~t.molecule_topologies.some
    THEN Bind(MolTop_parser(OrEmpty(t.inlines), OrEmpty(t.include_itps),
                            moleculetypes(t)), LAMBDA r :
              IF r.ok
              THEN [top |-> [t EXCEPT !.molecule_topologies = r.val], ret |-> Ok(r.val)]
              \* self.molecule_topologies = [] was executed before the builder raised
              ELSE [top |-> [t EXCEPT !.molecule_topologies = Some(<<>>)], ret |-> r])
    ELSE [top |-> t, ret |-> Raise(MolTopsExist)]

----------------------------------------------------------------------------
(* Input files *)

IncA == Line(<<"#include", "\"a.itp\"">>)
IncFF == Line(<<"#include", "\"toppar/ff.itp\"">>)
IncAComment == Line(<<"#include", "\"a.itp\"", ";", "DOPC">>)
IncNb == Line(<<"#include", "\"nb.itp\"">>)
IncDeep == Line(<<"#include", "\"deep.itp\"">>)

HdrSystem == Line(<<"[", "system", "]">>)
HdrSystemUpper == Line(<<"[", "SYSTEM", "]">>)
NameLine == Line(<<"Martini", "system">>)
IndentedComment == Indented(<<";name">>)
HdrMolecules == Line(<<"[", "molecules", "]">>)
MolDOPC2 == Line(<<"DOPC", "2">>)
MolDPPC1 == Line(<<"DPPC", "1">>)
MolDOPC5 == Line(<<"DOPC", "5">>)

AtomLine1 == Line(<<"1", "P5", "1", "DOPC", "A", "1", "0.0">>)
HdrDefaults == Line(<<"[", "defaults", "]">>)
DefaultsLine == Line(<<"1", "2">>)
HdrAtomtypes == Line(<<"[", "atomtypes", "]">>)
AtomtypeP5 == Line(<<"P5", "72.0", "0.0", "A", "0.0", "0.0">>)

\* a molecule type named DOPC with nrexcl 2 and one atom
MolBlock == <<HdrMoleculetype, MolDOPC2, HdrAtoms, AtomLine1>>
\* the two mandatory force field sections
FFBlock == <<HdrDefaults, DefaultsLine, HdrAtomtypes, AtomtypeP5>>

RootName == <<"sim", "system.top">>
RootPath == <<"", "work", "sim", "system.top">>
PathA == <<"", "work", "sim", "a.itp">>
PathFF == <<"", "work", "sim", "toppar", "ff.itp">>
PathNbSim == <<"", "work", "sim", "nb.itp">>
PathNbToppar == <<"", "work", "sim", "toppar", "nb.itp">>

\* the #include lines a root file is given, and its [ molecules ] data lines
IncLines == {IncA, IncFF, IncAComment}
MolLines == {MolDOPC2, MolDPPC1, MolDOPC5}

MaxIncludes == 2
MaxMolLines == 3

SystemBlocks == {<<HdrSystem, NameLine>>, <<HdrSystemUpper, IndentedComment, NameLine>>, <<>>}
InlineBlocks == {<<>>, MolBlock, FFBlock, FFBlock \o MolBlock}

\* the contents a.itp, toppar/ff.itp and the two nb.itp can have; <<>> in
\* the first position of a pair says the file does not exist
Missing == <<FALSE, <<>> >>
Present(ls) == <<TRUE, ls>>
ContentsA == {Missing, Present(MolBlock), Present(FFBlock), Present(<<IncNb>> \o FFBlock)}
ContentsFF == {Missing, Present(<<IncNb, IndentedComment>> \o FFBlock)}
ContentsNb == {Missing, Present(<<IncDeep>> \o MolBlock)}
\* sim/nb.itp can also include a.itp back: with a.itp including nb.itp the
\* two files include each other
ContentsNbSim == ContentsNb \cup {Present(<<IncA>> \o MolBlock)}

\* the file system with the given root content and include files
MakeFs(root, a, ff, nbSim, nbToppar) ==
    LET have == {RootPath}
                \cup (IF a[1] THEN {PathA} ELSE {})
                \cup (IF ff[1] THEN {PathFF} ELSE {})
                \cup (IF nbSim[1] THEN {PathNbSim} ELSE {})
                \cup (IF nbToppar[1] THEN {PathNbToppar} ELSE {})
    IN  [p \in have |->
           IF p = RootPath THEN root
           ELSE IF p = PathA THEN a[2]
           ELSE IF p = PathFF THEN ff[2]
           ELSE IF p = PathNbSim THEN nbSim[2]
           ELSE nbToppar[2]]

\* root files that vary the [ system ], [ molecules ] and inline parts
RootsByContent ==
    {inc \o pre \o sys \o <<HdrMolecules>> \o mol \o post :
        inc \in {<<>>, <<IncA>>},
        sys \in SystemBlocks,
        mol \in SeqsUpTo(MolLines, MaxMolLines),
        pre \in InlineBlocks,
        post \in {<<>>, MolBlock}}
    \cup {inc \o pre \o sys : inc \in {<<IncA>>}, sys \in SystemBlocks, pre \in {<<>>, MolBlock}}

\* root files that vary the #include lines
RootsByIncludes ==
    {inc \o pre \o <<HdrSystem, NameLine, HdrMolecules, MolDOPC2>> :
        inc \in SeqsUpTo(IncLines, MaxIncludes),
        pre \in {<<>>, FFBlock}}

Init ==
    /\ \/ \E root \in RootsByContent :
            fs = MakeFs(root, Present(FFBlock), Missing, Missing, Missing)
       \/ \E root \in RootsByIncludes :
            \E a \in ContentsA, ff \in ContentsFF, n1 \in ContentsNbSim, n2 \in ContentsNb :
                fs = MakeFs(root, a, ff, n1, n2)
    /\ top = NoObject
    /\ ret = NotApplied
    /\ log = <<>>
    /\ content = <<>>
    /\ section = ""
    /\ out = NotApplied

CallTopologyParser ==
    /\ top = NoObject
    /\ ret = NotApplied
    /\ \E filename \in {RootName, <<"missing.top">>} :
         \E r \in {Topology_parser_run(filename)} :
             /\ top' = IF r.res.ok THEN r.res.val ELSE NoObject
             /\ ret' = [op |-> "Topology.parser", filename |-> filename,
                        res |-> r.res, opened |-> r.opened]
    /\ UNCHANGED <<fs, log, content, section, out>>

CallPullForcefield ==
    /\ top # NoObject
    /\ Len(log) < MaxCalls
    /\ \E r \in {pull_forcefield(top)} :
           /\ top' = r.top
           /\ ret' = [op |-> "pull_forcefield", res |-> r.ret]
           /\ log' = Append(log, [op |-> "pull_forcefield", res |-> r.ret,
                                  before |-> top, after |-> r.top])
    /\ UNCHANGED <<fs, content, section, out>>

CallPullMoleculeTopologies ==
    /\ top # NoObject
    /\ Len(log) < MaxCalls
    /\ \E r \in {pull_molecule_topologies(top)} :
           /\ top' = r.top
           /\ ret' = [op |-> "pull_molecule_topologies", res |-> r.ret]
           /\ log' = Append(log, [op |-> "pull_molecule_topologies", res |-> r.ret,
                                  before |-> top, after |-> r.top])
    /\ UNCHANGED <<fs, content, section, out>>

Next == CallTopologyParser \/ CallPullForcefield \/ CallPullMoleculeTopologies

Spec == Init /\ [][Next]_vars

----------------------------------------------------------------------------
(* The record decoders applied to bounded contents *)

HdrNonbondParams == Line(<<"[", "nonbond_params", "]">>)
HdrBondtypes == Line(<<"[", "bondtypes", "]">>)
HdrAngletypes == Line(<<"[", "angletypes", "]">>)
HdrDihedraltypes == Line(<<"[", "dihedraltypes", "]">>)
HdrBonds == Line(<<"[", "bonds", "]">>)
HdrPairs == Line(<<"[", "pairs", "]">>)
HdrAngles == Line(<<"[", "angles", "]">>)
HdrDihedrals == Line(<<"[", "dihedrals", "]">>)

DecLines ==
    {HdrAtomtypes, HdrNonbondParams, HdrBondtypes, HdrAngletypes, HdrDihedraltypes,
     HdrAtoms, HdrBonds, HdrPairs, HdrAngles, HdrDihedrals, AtomtypeP5, AtomLine1}

InitDecoder ==
    /\ fs = <<>>
    /\ top = NoObject
    /\ ret = NotApplied
    /\ log = <<>>
    /\ content \in SeqsUpTo(DecLines, MaxDecLen)
    /\ section = ""
    /\ out = NotApplied

\* the outcome of a decoder, with the title of its section
Decoded(title, res) ==
    /\ out = NotApplied
    /\ out' = [op |-> "decoder", title |-> title, res |-> res]
    /\ UNCHANGED <<fs, top, ret, log, content, section>>

ApplyAtomtype == Decoded("atomtypes", MolForceFieldAtomtype_parser(content))
ApplyNonbondParam == Decoded("nonbond_params", MolForceFieldNonbondParam_parser(content))
ApplyBondtype == Decoded("bondtypes", MolForceFieldBondtype_parser(content))
ApplyAngletype == Decoded("angletypes", MolForceFieldAngletype_parser(content))
ApplyDihedraltype == Decoded("dihedraltypes", MolForceFieldDihedraltype_parser(content))
ApplyAtom == Decoded("atoms", MolTopAtom_parser(content))
ApplyBond == Decoded("bonds", MolTopBond_parser(content))
ApplyPair == Decoded("pairs", MolTopPair_parser(content))
ApplyAngle == Decoded("angles", MolTopAngle_parser(content))
ApplyDihedral == Decoded("dihedrals", MolTopDihedral_parser(content))

NextDecoder ==
    \/ ApplyAtomtype
    \/ ApplyNonbondParam
    \/ ApplyBondtype
    \/ ApplyAngletype
    \/ ApplyDihedraltype
    \/ ApplyAtom
    \/ ApplyBond
    \/ ApplyPair
    \/ ApplyAngle
    \/ ApplyDihedral

SpecDecoder == InitDecoder /\ [][NextDecoder]_vars

----------------------------------------------------------------------------
(* The record decoders applied to one section block *)

HeaderOf(title) == Line(<<"[", title, "]">>)

\* the lines made of the first n tokens of full, for the n of ns
Prefixes(full, ns) == {Line(SubSeq(full, 1, n)) : n \in ns}

\* the line followed by an inline comment
Commented(l) == Line(l.toks \o <<";", "DOPC">>)

Atomtype7 == <<"P5", "5", "72.0", "0.0", "A", "0.0", "0.0">>
Atomtype6 == <<"P5", "72.0", "0.0", "A", "0.0", "0.0">>
BondFull == <<"1", "2", "1", "0.5", "1.0", "9">>
AngleFull == <<"1", "2", "3", "1", "0.5", "1.0", "9">>

\* a dihedral line of the topology with the given func token
DihedralFull(func) ==
    <<"1", "2", "3", "4", func, "0.0", "1.0", "0.5", "0.0", "0.5", "1.0", "9">>

\* a dihedral type line with the given func and c2 tokens
DihedraltypeFull(func, c2) ==
    <<"A", "A", "A", "W", func, "0.0", "1.0", c2, "0.0", "0.5", "1.0", "9">>

RecTitles ==
    {"atomtypes", "nonbond_params", "bondtypes", "angletypes", "dihedraltypes",
     "atoms", "bonds", "pairs", "angles", "dihedrals"}

\* the data lines a block of the section is made of
RecLines(title) ==
    CASE title = "atomtypes" ->
           Prefixes(Atomtype6, {5, 6}) \cup Prefixes(Atomtype7, {7})
           \cup {Line(Atomtype7 \o <<"9">>), Commented(Line(Atomtype6)),
                 Commented(Line(Atomtype7)), Line(Atomtype6 \o <<";name">>)}
      [] title = "nonbond_params" ->
           {Line(<<"P5", "P5", "1", "0.5", "1.0">>), Line(<<"P5", "A", "1", "0.0", "1.0">>)}
      [] title = "bondtypes" ->
           {Line(<<"A", "W", "1", "0.5", "1.0">>), Line(<<"W", "W", "1", "0.0", "1.0">>)}
      [] title = "angletypes" ->
           {Line(<<"A", "A", "W", "1", "0.5", "1.0">>),
            Line(<<"W", "A", "W", "2", "0.0", "1.0">>)}
      [] title = "dihedraltypes" ->
           UNION {Prefixes(DihedraltypeFull(f, c), {8, 11}) :
                    f \in {"3", "9"}, c \in {"2", "0.0"}}
           \cup Prefixes(DihedraltypeFull("9", "2"), {7, 12})
           \cup {Commented(Line(SubSeq(DihedraltypeFull("9", "2"), 1, 8)))}
      [] title = "atoms" ->
           {AtomLine1, Line(<<"2", "P5", "1", "DOPC", "W", "2", "0.5">>)}
      [] title = "bonds" ->
           Prefixes(BondFull, 1..6)
           \cup {Commented(Line(<<>>)), Commented(Line(SubSeq(BondFull, 1, 3)))}
      [] title = "pairs" ->
           {Line(<<"1", "2">>), Line(<<"2", "3">>)}
      [] title = "angles" ->
           Prefixes(AngleFull, 3..7) \cup {Commented(Line(SubSeq(AngleFull, 1, 4)))}
      [] title = "dihedrals" ->
           UNION {Prefixes(DihedralFull(f), {5, 7, 8, 11, 12}) : f \in {"3", "9"}}
           \cup Prefixes(DihedralFull("3"), {4})
           \cup {Commented(Line(SubSeq(DihedralFull("3"), 1, 8)))}

\* a content that holds the header of one section and a block of its lines
InitRecord ==
    /\ fs = <<>>
    /\ top = NoObject
    /\ ret = NotApplied
    /\ log = <<>>
    /\ section \in RecTitles
    /\ \E block \in SeqsUpTo(RecLines(section), MaxBlockLen) :
          content = <<HeaderOf(section)>> \o block
    /\ out = NotApplied

SpecRecord == InitRecord /\ [][NextDecoder]_vars

----------------------------------------------------------------------------
(* The two dihedral records built from keyword values *)

DihedralFuncs == {1, 2, 3, 4, 5, 9}

\* a coefficient that is None or a float
FloatOrNone == {None, Some(500)}

\* c2 of a dihedral type: None, the integer 2 or the float 0.5
C2OrNone == {None, Some([isint |-> TRUE, v |-> 2]), Some([isint |-> FALSE, v |-> 500])}

DihedraltypeValues ==
    [ai : {"A"}, aj : {"A"}, ak : {"A"}, al : {"W"}, func : DihedralFuncs,
     c0 : FloatOrNone, c1 : FloatOrNone, c2 : C2OrNone,
     c3 : FloatOrNone, c4 : FloatOrNone, c5 : FloatOrNone]

DihedralValues ==
    [ai : {1}, aj : {2}, ak : {3}, al : {4}, func : DihedralFuncs,
     c0 : FloatOrNone, c1 : FloatOrNone, c2 : FloatOrNone,
     c3 : FloatOrNone, c4 : FloatOrNone, c5 : FloatOrNone]

InitConstruct ==
    /\ fs = <<>>
    /\ top = NoObject
    /\ ret = NotApplied
    /\ log = <<>>
    /\ content = <<>>
    /\ section = ""
    /\ out = NotApplied

ConstructDihedraltype ==
    /\ out = NotApplied
    /\ \E values \in DihedraltypeValues :
          out' = [op |-> "construct", cls |-> "MolForceFieldDihedraltype",
                  values |-> values, res |-> MolForceFieldDihedraltype_new(values)]
    /\ UNCHANGED <<fs, top, ret, log, content, section>>

ConstructDihedral ==
    /\ out = NotApplied
    /\ \E values \in DihedralValues :
          out' = [op |-> "construct", cls |-> "MolTopDihedral",
                  values |-> values, res |-> MolTopDihedral_new(values)]
    /\ UNCHANGED <<fs, top, ret, log, content, section>>

NextConstruct == ConstructDihedraltype \/ ConstructDihedral

SpecConstruct == InitConstruct /\ [][NextConstruct]_vars

----------------------------------------------------------------------------
(* Characters.  A string is the sequence of its characters. *)

\* an exception with its message: the text and the value it quotes
PyError(type, text, arg) == [type |-> type, text |-> text, arg |-> arg]

Digits == <<"0", "1", "2", "3", "4", "5", "6", "7", "8", "9">>

IsDigit(c) == \E d \in 1..10 : Digits[d] = c

DigitVal(c) == (CHOOSE d \in 1..10 : Digits[d] = c) - 1

WhiteSpace == {" ", "\n", "\t", "\r"}

\* s.lstrip()
RECURSIVE LStrip(_)
LStrip(cs) ==
    IF cs # <<>> /\ Head(cs) \in WhiteSpace THEN LStrip(Tail(cs)) ELSE cs

RECURSIVE RStrip(_)
RStrip(cs) ==
    IF cs # <<>> /\ cs[Len(cs)] \in WhiteSpace
    THEN RStrip(SubSeq(cs, 1, Len(cs) - 1))
    ELSE cs

\* s.strip()
StripChars(cs) == RStrip(LStrip(cs))

\* s.strip("\n")
RECURSIVE StripNewlines(_)
StripNewlines(cs) ==
    IF cs # <<>> /\ Head(cs) = "\n" THEN StripNewlines(Tail(cs))
    ELSE IF cs # <<>> /\ cs[Len(cs)] = "\n"
    THEN StripNewlines(SubSeq(cs, 1, Len(cs) - 1))
    ELSE cs

\* s.split()
RECURSIVE SplitChars(_)
SplitChars(cs) ==
    Bind(LStrip(cs), LAMBDA s :
        IF s = <<>> THEN <<>>
        ELSE Bind(Min({i \in 1..(Len(s) + 1) :
                         i = Len(s) + 1 \/ s[i] \in WhiteSpace}), LAMBDA n :
                 <<SubSeq(s, 1, n - 1)>> \o SplitChars(SubSeq(s, n, Len(s)))))

\* the number written by the decimal digits ds
RECURSIVE DecVal(_)
DecVal(ds) ==
    IF ds = <<>> THEN 0
    ELSE 10 * DecVal(SubSeq(ds, 1, Len(ds) - 1)) + DigitVal(ds[Len(ds)])

Unsigned(cs) == IF cs # <<>> /\ Head(cs) \in {"-", "+"} THEN Tail(cs) ELSE cs

SignOf(cs) == IF cs # <<>> /\ Head(cs) = "-" THEN -1 ELSE 1

\* int(s) of a string of digits, signs and white space
IntOfChars(cs) ==
    Bind(StripChars(cs), LAMBDA s :
        IF Unsigned(s) = <<>> \/ \E i \in 1..Len(Unsigned(s)) : ~IsDigit(Unsigned(s)[i])
        THEN Raise(PyError("ValueError", "invalid literal for int() with base 10:", cs))
        ELSE Ok(SignOf(s) * DecVal(Unsigned(s))))

\* the float num / 10^exp, with num not a multiple of ten unless exp = 0:
\* two decimal texts denote the same float exactly when they give the same
\* record
RECURSIVE Decimal(_, _)
Decimal(num, exp) ==
    IF exp > 0 /\ num % 10 = 0 THEN Decimal(num \div 10, exp - 1)
    ELSE [num |-> num, exp |-> exp]

\* float(s) of a string of digits, signs, points and white space
FloatOfChars(cs) ==
    Bind(StripChars(cs), LAMBDA s :
    Bind(Unsigned(s), LAMBDA body :
        IF \/ SelectSeq(body, IsDigit) = <<>>
           \/ Cardinality({i \in 1..Len(body) : body[i] = "."}) > 1
           \/ \E i \in 1..Len(body) : ~IsDigit(body[i]) /\ body[i] # "."
        THEN Raise(PyError("ValueError", "could not convert string to float:", cs))
        ELSE Ok(Decimal(SignOf(s) * DecVal(SelectSeq(body, IsDigit)),
                        IF \E i \in 1..Len(body) : body[i] = "."
                        THEN Len(body) - Min({i \in 1..Len(body) : body[i] = "."})
                        ELSE 0))))

----------------------------------------------------------------------------
(* GroFile.parser *)

\* the ValueError raised for an atom line of the wrong length
GroFormatError(line) ==
    PyError("ValueError", "Gro file line not formatted correctly:", line)

\* the body of the loop over the atom lines: the columns are converted, the
\* GroAtom is built and appended, and the length is looked at last
GroAtomLine(line) ==
    Bind(<<IntOfChars(PySlice(line, 0, 5)), IntOfChars(PySlice(line, 15, 20)),
           FloatOfChars(PySlice(line, 20, 28)), FloatOfChars(PySlice(line, 28, 36)),
           FloatOfChars(PySlice(line, 36, 44))>>
         \o (IF Len(line) = 69
             THEN <<FloatOfChars(PySlice(line, 44, 52)),
                    FloatOfChars(PySlice(line, 52, 60)),
                    FloatOfChars(PySlice(line, 60, 68))>>
             ELSE <<>>), LAMBDA conv :
        IF \E i \in 1..Len(conv) : ~conv[i].ok THEN Raise(FirstError(conv))
        ELSE IF Len(line) \notin {45, 69} THEN Raise(GroFormatError(line))
        ELSE Ok([resid |-> conv[1].val,
                 resname |-> StripChars(PySlice(line, 5, 10)),
                 atom_name |-> StripChars(PySlice(line, 10, 15)),
                 index |-> conv[2].val,
                 x |-> conv[3].val, y |-> conv[4].val, z |-> conv[5].val,
                 vx |-> IF Len(line) = 69 THEN conv[6].val ELSE Decimal(0, 0),
                 vy |-> IF Len(line) = 69 THEN conv[7].val ELSE Decimal(0, 0),
                 vz |-> IF Len(line) = 69 THEN conv[8].val ELSE Decimal(0, 0)]))

\* np.array(line.strip("\n").lstrip().split(), dtype=float).tolist()
GroBox(line) ==
    Bind(SplitChars(LStrip(StripNewlines(line))), LAMBDA ts :
    Bind([i \in 1..Len(ts) |-> FloatOfChars(ts[i])], LAMBDA conv :
        IF \E i \in 1..Len(conv) : ~conv[i].ok THEN Raise(FirstError(conv))
        ELSE Ok([i \in 1..Len(conv) |-> conv[i].val])))

\* every line after the first two taken as an atom line
GroAtomLines_toEnd(lines, num_atoms) == PyFrom(lines, 2)

\* lines[_skip_lines: _skip_lines + num_atoms]
GroAtomLines(lines, num_atoms) == PySlice(lines, 2, 2 + num_atoms)

\* GroFile.parser on the lines that readlines gives
GroFile_parser(lines) ==
    IF ~PyInRange(lines, 1) THEN Raise(PyError("IndexError", "list index out of range", <<>>))
    ELSE Bind(IntOfChars(lines[2]), LAMBDA n :
        IF ~n.ok THEN n
        ELSE IF ~PyInRange(lines, 2 + n.val) THEN Raise(PyError("IndexError", "list index out of range", <<>>))
        ELSE Bind(GroBox(PyAt(lines, 2 + n.val)), LAMBDA box :
            IF ~box.ok THEN box
            ELSE Bind(GroAtomLines(lines, n.val), LAMBDA ls :
                 Bind([i \in 1..Len(ls) |-> GroAtomLine(ls[i])], LAMBDA rs :
                     IF \E i \in 1..Len(rs) : ~rs[i].ok THEN Raise(FirstError(rs))
                     ELSE Ok([sys_name |-> StripNewlines(lines[1]),
                              num_atoms |-> n.val,
                              gro_atoms |-> [i \in 1..Len(rs) |-> rs[i].val],
                              box_size |-> box.val])))))

----------------------------------------------------------------------------
(* GroFile.parser applied to coordinate files *)

Blanks(n) == [i \in 1..n |-> " "]

\* "%5d", "%5s", "%8.3f": cs flushed right in a column of width w
RightAligned(cs, w) == Blanks(w - Len(cs)) \o cs

\* "%-5s"
LeftAligned(cs, w) == cs \o Blanks(w - Len(cs))

NewLine == <<"\n">>

GroTitle == <<"M", "D", " ", "o", "f", " ", "w", "a", "t", "e", "r">>

\* the second line of the file, announcing n atoms
GroCountLine(n) == RightAligned(<<Digits[n + 1]>>, 5) \o NewLine

GroAtomNames == << <<"O", "W", "1">>, <<"H", "W", "2">>, <<"H", "W", "3">> >>

\* the first 44 columns of atom i: residue, names, index and position
GroPositionColumns(i) ==
    RightAligned(<<Digits[((i + 2) \div 3) + 1]>>, 5)
    \o LeftAligned(<<"W", "A", "T", "E", "R">>, 5)
    \o RightAligned(GroAtomNames[((i - 1) % 3) + 1], 5)
    \o RightAligned(<<Digits[i + 1]>>, 5)
    \o RightAligned(<<"0", ".", "1", "2", Digits[i + 1]>>, 8)
    \o RightAligned(<<"1", ".", "6", "2", "4">>, 8)
    \o RightAligned(<<"1", ".", "6", "7", "9">>, 8)

\* columns 44 to 67 of atom i: the velocity
GroVelocityColumns(i) ==
    RightAligned(<<"0", ".", "1", "2", "2", Digits[i + 1]>>, 8)
    \o RightAligned(<<"-", "0", ".", "0", "5", "8", "0">>, 8)
    \o RightAligned(<<"0", ".", "0", "4", "3", "4">>, 8)

\* the ways the line of an atom is written: with and without velocity, with
\* a blank at its end, with vx alone, and cut in the y column
GroVariants == {"pos", "posvel", "pos_blank", "pos_vx", "posvel_blank", "cut"}

GroAtomText(i, variant) ==
    CASE variant = "pos" -> GroPositionColumns(i) \o NewLine
      [] variant = "posvel" ->
           GroPositionColumns(i) \o GroVelocityColumns(i) \o NewLine
      [] variant = "pos_blank" -> GroPositionColumns(i) \o <<" ">> \o NewLine
      [] variant = "pos_vx" ->
           GroPositionColumns(i) \o SubSeq(GroVelocityColumns(i), 1, 8) \o NewLine
      [] variant = "posvel_blank" ->
           GroPositionColumns(i) \o GroVelocityColumns(i) \o <<" ">> \o NewLine
      [] variant = "cut" -> SubSeq(GroPositionColumns(i), 1, 30) \o NewLine

GroBoxText ==
    <<" ", " ", " ", "1", ".", "8", "2", "0", "6", "0",
      " ", " ", " ", "1", ".", "8", "2", "0", "6", "0",
      " ", " ", " ", "1", ".", "8", "2", "0", "6", "0">>

\* the end of the file: the box line, without a line break, followed by an
\* empty line, or missing
GroTails == {<<GroBoxText \o NewLine>>, <<GroBoxText>>,
             <<GroBoxText \o NewLine, NewLine>>, <<>>}

GroFileLines(count, variants, tail) ==
    <<GroTitle \o NewLine, GroCountLine(count)>>
    \o [i \in 1..Len(variants) |-> GroAtomText(i, variants[i])]
    \o tail

GroPaths == {"conf.gro", "none.gro"}

\* open(file).readlines() followed by the rest of GroFile.parser; only
\* conf.gro is on disk, with the lines of content
GroFile_open(file) ==
    IF file = "conf.gro" THEN GroFile_parser(content)
    ELSE Raise(PyError("FileNotFoundError", "No such file or directory:", file))

InitGro ==
    /\ fs = <<>>
    /\ top = NoObject
    /\ ret = NotApplied
    /\ log = <<>>
    /\ section = ""
    /\ out = NotApplied
    /\ \E count \in 0..MaxGroAtoms, variants \in SeqsUpTo(GroVariants, MaxGroAtoms),
          tail \in GroTails :
          content = GroFileLines(count, variants, tail)

CallGroParser ==
    /\ Len(log) < MaxGroCalls
    /\ \E file \in GroPaths : \E r \in {GroFile_open(file)} :
          /\ log' = Append(log, [file |-> file, res |-> r])
          /\ out' = [op |-> "GroFile.parser", file |-> file, res |-> r]
    /\ UNCHANGED <<fs, top, ret, content, section>>

NextGro == CallGroParser

SpecGro == InitGro /\ [][NextGro]_vars

----------------------------------------------------------------------------
(* The line normalizer and the aggregate builders applied to inline lines  *)
(* and files                                                               *)

\* the number that marks every line written for molecule name
MolTag(name) == IF name = "DOPC" THEN "1" ELSE "2"

\* the data line after the [ moleculetype ] header: name and nrexcl
MolNameLine(name) == Line(<<name, MolTag(name)>>)

MolSectionKinds == {"atoms", "bonds", "pairs", "angles", "dihedrals"}

\* the token that tells the v-th block of a section from the others
VariantInt(v) == <<"3", "4", "5", "9", "0">>[v]
VariantName(v) == <<"P5", "W", "A", "Martini", "yes">>[v]

\* the data line of the v-th block of a section of molecule name
MolDataLine(kind, name, v) ==
    CASE kind = "atoms" ->
           Line(<<MolTag(name), VariantName(v), "1", name, "A", "1", "0.0">>)
      [] kind = "bonds" -> Line(<<MolTag(name), VariantInt(v)>>)
      [] kind = "pairs" -> Line(<<MolTag(name), VariantInt(v)>>)
      [] kind = "angles" -> Line(<<MolTag(name), VariantInt(v), "5", "1">>)
      [] kind = "dihedrals" -> Line(<<MolTag(name), VariantInt(v), "5", "9", "1">>)

\* a section block of one data line
MolSection(kind, name, v) == <<HeaderOf(kind), MolDataLine(kind, name, v)>>

\* the blocks of the sections kinds: the v-th block of a kind is written
\* with its v-th data line
MolSections(name, kinds) ==
    [j \in 1..Len(kinds) |->
        MolSection(kinds[j], name, Cardinality({k \in 1..j : kinds[k] = kinds[j]}))]

\* a molecule type: header, name line and its section blocks
Molecule(name, secs) == <<HdrMoleculetype, MolNameLine(name)>> \o Flatten(secs)

\* inline lines: one DOPC molecule type with up to MaxMolSections blocks,
\* after nothing, an [ atoms ] block or an [ atoms ] and a [ dihedrals ]
\* block, alone or after a DPPC molecule type, or force field sections only,
\* with and without [ defaults ]
BuilderInlines ==
    {pre \o Molecule("DOPC", MolSections("DOPC", lead \o kinds)) :
        pre \in {<<>>, Molecule("DPPC", <<MolSection("atoms", "DPPC", 1)>>)},
        lead \in {<<>>, <<"atoms">>, <<"atoms", "dihedrals">>},
        kinds \in SeqsUpTo(MolSectionKinds, MaxMolSections)}
    \cup {FFBlock, <<HdrAtomtypes, AtomtypeP5>>, <<>>}

\* what a.itp holds: a full DPPC molecule type, one without atoms, the force
\* field sections with a comment
BuilderFiles ==
    {Molecule("DPPC", <<MolSection("atoms", "DPPC", 2), MolSection("dihedrals", "DPPC", 1)>>),
     Molecule("DPPC", <<>>),
     <<IndentedComment>> \o FFBlock}

\* raw lines: blank, comment, marker and data lines, flush and indented
RawLines ==
    {Line(<<>>), Indented(<<>>), Line(<<";", "DOPC">>), IndentedComment,
     Line(<<"*">>), Line(<<"#define">>), Indented(<<"#define">>),
     DataDOPC1, Indented(<<"DOPC", "2">>)}

\* the lists of files handed to a builder
FileLists == {<<>>, <<PathA>>, <<PathFF, PathA>>}

MoleculeTypeArgs == {{"DOPC"}, {"DOPC", "DPPC"}}

InitBuilder ==
    /\ top = NoObject
    /\ ret = NotApplied
    /\ log = <<>>
    /\ section = ""
    /\ out = NotApplied
    /\ \/ /\ content \in BuilderInlines
          /\ \/ fs = <<>>
             \/ \E a \in BuilderFiles : fs = [p \in {PathA} |-> a]
       \/ /\ content \in SeqsUpTo(RawLines, MaxRawLen)
          /\ fs = [p \in {PathA, PathFF} |->
                     IF p = PathA THEN <<IndentedComment, MolDPPC1, Line(<<>>)>>
                     ELSE <<Indented(<<"DOPC", "5">>), Line(<<"*">>)>>]

ApplyCleanLines ==
    /\ out = NotApplied
    /\ \E files \in FileLists : \E r \in {clean_lines(content, files)} :
          out' = [op |-> "clean_lines", files |-> files, res |-> r]
    /\ UNCHANGED <<fs, top, ret, log, content, section>>

ApplyMolForceFieldParser ==
    /\ out = NotApplied
    /\ \E files \in FileLists : \E r \in {MolForceField_parser(content, files)} :
          out' = [op |-> "MolForceField.parser", files |-> files, res |-> r]
    /\ UNCHANGED <<fs, top, ret, log, content, section>>

ApplyMolTopParser ==
    /\ out = NotApplied
    /\ \E files \in FileLists, molecule_types \in MoleculeTypeArgs :
       \E r \in {MolTop_parser(content, files, molecule_types)} :
          out' = [op |-> "MolTop.parser", files |-> files,
                  molecule_types |-> molecule_types, res |-> r]
    /\ UNCHANGED <<fs, top, ret, log, content, section>>

NextBuilder == ApplyCleanLines \/ ApplyMolForceFieldParser \/ ApplyMolTopParser

SpecBuilder == InitBuilder /\ [][NextBuilder]_vars

----------------------------------------------------------------------------
(* Properties of Topology.parser and of the pull operations *)

\* the normalized lines of the root file
RootLines == TopLines(fs[RootPath])

IsInclude(l) == Len(l.toks) > 0 /\ l.toks[1] = "#include"

\* the file an #include line names, by the file that holds the line
PathOfInclude(container, l) ==
    CASE container = RootPath /\ l \in {IncA, IncAComment} -> PathA
      [] container = RootPath /\ l = IncFF -> PathFF
      [] container = PathA /\ l = IncNb -> PathNbSim
      [] container = PathFF /\ l = IncNb -> PathNbToppar

\* the paths of the #include lines of the root file, in file order
FirstLevel ==
    LET inc == SelectSeq(RootLines, IsInclude)
    IN  [i \in 1..Len(inc) |-> PathOfInclude(RootPath, inc[i])]

\* the paths of the #include lines of the first-level file p
SecondLevel(p) ==
    LET inc == SelectSeq(fs[p], IsInclude)
    IN  [i \in 1..Len(inc) |-> PathOfInclude(p, inc[i])]

\* one [ system ] header followed by a name line, one [ molecules ] header
\* whose data lines each hold a name and an integer
WellFormed(ls) ==
    /\ Cardinality(Occurrences(ls, "system")) = 1
    /\ Cardinality(Occurrences(ls, "molecules")) = 1
    /\ LET s == Min(Occurrences(ls, "system"))
           m == Min(Occurrences(ls, "molecules"))
       IN  /\ s + 2 <= Len(ls)
           /\ ~MatchesAnySection(ls[s + 2])
           /\ ~IsInclude(ls[s + 2])
           /\ \A i \in (m + 2)..BlockEnd(ls, m) :
                 /\ Len(ls[i].toks) >= 2
                 /\ ls[i].toks[2] \in IntToks
                 /\ ~IsInclude(ls[i])

ParserApplied == ret.op = "Topology.parser" /\ ret.filename = RootName
ParserReturned == ParserApplied /\ ret.res.ok

\* C1: on one Topology, every pull_forcefield call made after a
\* pull_forcefield call that succeeded raises, and leaves the forcefield
\* the first call stored.
C1_SecondPullForcefieldRaises ==
    \A i, j \in 1..Len(log) :
        (/\ i < j
         /\ log[i].op = "pull_forcefield"
         /\ log[i].res.ok
         /\ log[j].op = "pull_forcefield") =>
            /\ log[j].res = Raise(ForceFieldExists)
            /\ log[j].after.forcefield = log[i].after.forcefield
            /\ log[i].after.forcefield.some

\* a first call that succeeds, then a second call that raises
C1_Witness ==
    /\ Len(log) >= 2
    /\ log[1].op = "pull_forcefield"
    /\ log[1].res.ok
    /\ log[2].op = "pull_forcefield"
    /\ log[2].res = Raise(ForceFieldExists)
    /\ top.forcefield = log[1].after.forcefield

\* C2: on one Topology, every pull_molecule_topologies call after the first
\* one raises, whatever the first call found.
C2_SecondPullMolTopsRaises ==
    \A i, j \in 1..Len(log) :
        (/\ i < j
         /\ log[i].op = "pull_molecule_topologies"
         /\ log[j].op = "pull_molecule_topologies") =>
            ~log[j].res.ok

\* C3: when Topology.parser returns, molecules holds one (name, count) entry
\* per data line of the [ molecules ] block, in file order, an entry with a
\* repeated name being kept as an entry of its own.
C3_MoleculesInFileOrder ==
    (ParserReturned /\ Occurrences(RootLines, "molecules") # {}) =>
        LET m == Min(Occurrences(RootLines, "molecules"))
            block == SubSeq(RootLines, m + 2, BlockEnd(RootLines, m))
        IN  /\ Len(ret.res.val.molecules) = Len(block)
            /\ \A i \in 1..Len(block) :
                  ret.res.val.molecules[i] =
                      [name |-> block[i].toks[1], count |-> IntOf(block[i].toks[2])]

\* DOPC 2, DPPC 1, DOPC 5 gives three entries in that order
C3_Witness ==
    /\ ParserReturned
    /\ ret.res.val.molecules = << [name |-> "DOPC", count |-> 2],
                                  [name |-> "DPPC", count |-> 1],
                                  [name |-> "DOPC", count |-> 5] >>

\* C4: for a root file with a [ system ] and a [ molecules ] section and no
\* #include line, Topology.parser returns a Topology whose include_itps is
\* none.
C4_NoIncludeGivesNone ==
    (ParserApplied /\ WellFormed(RootLines) /\ FirstLevel = <<>>) =>
        /\ ret.res.ok
        /\ ret.res.val.include_itps = None

\* C5: include_itps is the path of every #include line of the root file, in
\* file order, resolved against the directory of the root file, followed by
\* the paths of the #include lines of each first-level file, visited in that
\* order and resolved against the directory of the file that holds the line;
\* repeated paths are kept and the includes of second-level files are not
\* added.
C5_IncludeOrder ==
    ParserReturned =>
        ret.res.val.include_itps =
            Some(FirstLevel \o Flatten([i \in 1..Len(FirstLevel) |->
                                          SecondLevel(FirstLevel[i])]))

\* a.itp and toppar/ff.itp each include "nb.itp": two different files, and
\* the nb.itp beside a.itp includes deep.itp, which is not listed
C5_Witness ==
    /\ ParserReturned
    /\ PathNbSim \in DOMAIN fs
    /\ IncDeep \in {fs[PathNbSim][i] : i \in 1..Len(fs[PathNbSim])}
    /\ ret.res.val.include_itps = Some(<<PathA, PathFF, PathNbSim, PathNbToppar>>)

\* C6 as stated: Topology.parser never returns a Topology whose include_itps
\* names a file that does not exist, first-level or second-level.
C6_NoMissingFileListed ==
    ParserReturned =>
        \A i \in 1..Len(ret.res.val.include_itps.val) :
            ret.res.val.include_itps.val[i] \in DOMAIN fs

\* C6: Topology.parser fails with a file-not-found error whenever a
\* first-level path does not exist and the steps before include resolution
\* succeed; it never returns a Topology whose include_itps names a missing
\* first-level file. Second-level paths are listed without being opened.
C6_MissingFirstLevelFails ==
    ParserApplied =>
        /\ ret.res.ok =>
              \A i \in 1..Len(FirstLevel) :
                  /\ ret.res.val.include_itps.val[i] = FirstLevel[i]
                  /\ FirstLevel[i] \in DOMAIN fs
        /\ (/\ WellFormed(RootLines)
            /\ \E i \in 1..Len(FirstLevel) : FirstLevel[i] \notin DOMAIN fs) =>
              ret.res = Raise("FileNotFoundError")

\* toppar/ff.itp exists and a.itp does not
C6_Witness ==
    /\ ParserApplied
    /\ WellFormed(RootLines)
    /\ FirstLevel = <<PathFF, PathA>>
    /\ PathFF \in DOMAIN fs
    /\ PathA \notin DOMAIN fs
    /\ ret.res = Raise("FileNotFoundError")

\* C7: inlines is the normalized line sequence without the [ system ] header
\* and its name line, the [ molecules ] header and the data lines of its
\* block, and the #include lines; every other line is kept, in its original
\* order, also when it has the text of a removed line.
C7_InlinesByPosition ==
    (ParserReturned /\ WellFormed(RootLines)) =>
        LET s == Min(Occurrences(RootLines, "system"))
            m == Min(Occurrences(RootLines, "molecules"))
            removed == {s, s + 1} \cup (m..(BlockEnd(RootLines, m) - 1))
                       \cup {i \in 0..(Len(RootLines) - 1) : IsInclude(RootLines[i + 1])}
            kept == Ascending((0..(Len(RootLines) - 1)) \ removed)
        IN  OrEmpty(ret.res.val.inlines) = [i \in 1..Len(kept) |-> RootLines[kept[i] + 1]]

\* a pull call that raised for another reason than a field already filled
FailedPull(e) == ~e.res.ok /\ e.res \notin {Raise(ForceFieldExists), Raise(MolTopsExist)}

\* C26: a pull_forcefield or pull_molecule_topologies call that raises
\* because a builder or a decoder failed leaves forcefield and
\* molecule_topologies as they were before the call, so the same pull called
\* again is not rejected as already populated.
C26_FailedPullChangesNothing ==
    \A i \in 1..Len(log) :
        FailedPull(log[i]) =>
            /\ log[i].after.forcefield = log[i].before.forcefield
            /\ log[i].after.molecule_topologies = log[i].before.molecule_topologies
            /\ \A j \in (i + 1)..Len(log) :
                   (log[j].op = log[i].op /\ log[j].before = log[i].before) =>
                       log[j].res \notin {Raise(ForceFieldExists), Raise(MolTopsExist)}

\* the fields Topology.parser fills
ParsedFields(t) == <<t.system, t.molecules, t.include_itps, t.inlines>>

\* C27: after any sequence of pull_forcefield and pull_molecule_topologies
\* calls, system, molecules, include_itps and inlines hold the values
\* Topology.parser set; pull_forcefield leaves molecule_topologies alone,
\* pull_molecule_topologies leaves forcefield alone, and a forcefield that
\* holds a force field does not change again.
C27_PullFrame ==
    log # <<>> =>
        /\ log[1].before = Topology_parser(RootName).val
        /\ top = log[Len(log)].after
        /\ \A i \in 1..Len(log) :
              /\ i > 1 => log[i].before = log[i - 1].after
              /\ ParsedFields(log[i].after) = ParsedFields(log[1].before)
              /\ log[i].op = "pull_forcefield" =>
                    log[i].after.molecule_topologies = log[i].before.molecule_topologies
              /\ log[i].op = "pull_molecule_topologies" =>
                    log[i].after.forcefield = log[i].before.forcefield
              /\ log[i].before.forcefield.some =>
                    log[i].after.forcefield = log[i].before.forcefield

\* a force field is stored, then molecule topologies are stored beside it,
\* then a further pull_forcefield is made
C27_Witness ==
    /\ Len(log) = 3
    /\ log[1].op = "pull_forcefield"
    /\ log[1].res.ok
    /\ log[2].op = "pull_molecule_topologies"
    /\ log[2].res.ok
    /\ log[2].after.molecule_topologies.some
    /\ log[2].after.molecule_topologies.val # <<>>
    /\ log[3].op = "pull_forcefield"
    /\ top.forcefield = log[1].after.forcefield
    /\ top.inlines.some
    /\ top.include_itps.some

\* how many times the call has opened the file p
Opens(p) == Cardinality({i \in 1..Len(ret.opened) : ret.opened[i] = p})

\* the paths of the #include lines of the first-level files, taken once for
\* every root #include line that names the file
SecondLevelAll == Flatten([i \in 1..Len(FirstLevel) |-> SecondLevel(FirstLevel[i])])

\* the files that include each other: a.itp names nb.itp and nb.itp names a.itp
IncludeCycle ==
    /\ PathA \in DOMAIN fs
    /\ PathNbSim \in DOMAIN fs
    /\ \E i \in 1..Len(fs[PathA]) : fs[PathA][i] = IncNb
    /\ \E i \in 1..Len(fs[PathNbSim]) : fs[PathNbSim][i] = IncA

\* C28 as stated: Topology.parser ends on every include graph, cycles
\* included; a call that returns has opened each first-level file exactly
\* once and no second-level file, and include_itps has one entry per root
\* #include line plus one per #include line of the first-level files.
C28_OpensEachFirstLevelOnce ==
    /\ (top = NoObject /\ ret = NotApplied) => ENABLED CallTopologyParser
    /\ ParserReturned =>
          /\ \A i \in 1..Len(FirstLevel) : Opens(FirstLevel[i]) = 1
          /\ \A i \in 1..Len(SecondLevelAll) :
                (\A j \in 1..Len(FirstLevel) : SecondLevelAll[i] # FirstLevel[j]) =>
                    Opens(SecondLevelAll[i]) = 0
          /\ Len(ret.res.val.include_itps.val) = Len(FirstLevel) + Len(SecondLevelAll)

\* C28, amended: Topology.parser ends on every include graph, cycles
\* included; a call that returns has opened the root file and then one file
\* per root #include line, in line order, so that a file named by two root
\* lines is opened twice, and it has opened nothing else; a call that raises
\* has opened a part of the same files; include_itps of a call that returns
\* has one entry per root #include line plus one per #include line read in
\* the first-level files.
C28_OpensOncePerIncludeLine ==
    /\ (top = NoObject /\ ret = NotApplied) => ENABLED CallTopologyParser
    /\ ParserApplied =>
          /\ Len(ret.opened) <= 1 + Len(FirstLevel)
          /\ \A i \in 1..Len(ret.opened) :
                ret.opened[i] = (<<RootPath>> \o FirstLevel)[i]
    /\ ParserReturned =>
          /\ ret.opened = <<RootPath>> \o FirstLevel
          /\ Len(ret.res.val.include_itps.val) = Len(FirstLevel) + Len(SecondLevelAll)

\* the root names a.itp, a.itp and nb.itp include each other, and the call
\* returns after it has opened the root and a.itp
C28_Witness ==
    /\ ParserReturned
    /\ IncludeCycle
    /\ FirstLevel = <<PathA>>
    /\ ret.opened = <<RootPath, PathA>>
    /\ ret.res.val.include_itps = Some(<<PathA, PathNbSim>>)

----------------------------------------------------------------------------
(* Properties of the record decoders *)

\* the decoder of a section
ParserOf(title, lines) ==
    CASE title = "atomtypes" -> MolForceFieldAtomtype_parser(lines)
      [] title = "nonbond_params" -> MolForceFieldNonbondParam_parser(lines)
      [] title = "bondtypes" -> MolForceFieldBondtype_parser(lines)
      [] title = "angletypes" -> MolForceFieldAngletype_parser(lines)
      [] title = "dihedraltypes" -> MolForceFieldDihedraltype_parser(lines)
      [] title = "atoms" -> MolTopAtom_parser(lines)
      [] title = "bonds" -> MolTopBond_parser(lines)
      [] title = "pairs" -> MolTopPair_parser(lines)
      [] title = "angles" -> MolTopAngle_parser(lines)
      [] title = "dihedrals" -> MolTopDihedral_parser(lines)

\* the outcome of the decoder on a block that holds the line l alone
One(title, l) == ParserOf(title, <<HeaderOf(title), l>>)

\* the line matches an arity rule of the decoder and its tokens convert
GoodLine(title, l) == One(title, l).ok /\ One(title, l).val.some

\* the data lines of the block the decoder was given
Block == Tail(content)

\* the decoder of the section of the block has been applied
OwnDecoder == out.op = "decoder" /\ out.title = section

\* the tokens of the first data line, without its inline comment
FirstParts == BeforeSemi(Block[1].toks)

\* C11: for every decoder and every block of k data lines that each match
\* an arity rule of the decoder, the decoder returns k records, the i-th
\* decoded from the i-th line.
C11_OneRecordPerLine ==
    (/\ OwnDecoder
     /\ Block # <<>>
     /\ \A i \in 1..Len(Block) : GoodLine(section, Block[i])) =>
        /\ out.res.ok
        /\ out.res.val.some
        /\ Len(out.res.val.val) = Len(Block)
        /\ \A i \in 1..Len(Block) :
              out.res.val.val[i] = One(section, Block[i]).val.val[1]

\* C12: MolTopBond.parser decodes a bond line by the number of its tokens
\* before the inline comment: 5 give ai, aj, func, c0, c1; 3 or 4 give ai,
\* aj, func with c0 and c1 unset; 2 give ai, aj with func = 1 and c0, c1
\* unset; every other count raises the format error.
C12_BondByTokenCount ==
    (OwnDecoder /\ section = "bonds" /\ Block # <<>>) =>
        LET parts == FirstParts
            n == Len(parts)
        IN  CASE n = 5 ->
                   /\ out.res.ok
                   /\ out.res.val.val[1] =
                        [ai |-> IntOf(parts[1]), aj |-> IntOf(parts[2]),
                         func |-> Some(IntOf(parts[3])),
                         c0 |-> Some(FloatOf(parts[4])), c1 |-> Some(FloatOf(parts[5]))]
              [] n \in {3, 4} ->
                   /\ out.res.ok
                   /\ out.res.val.val[1] =
                        [ai |-> IntOf(parts[1]), aj |-> IntOf(parts[2]),
                         func |-> Some(IntOf(parts[3])), c0 |-> None, c1 |-> None]
              [] n = 2 ->
                   /\ out.res.ok
                   /\ out.res.val.val[1] =
                        [ai |-> IntOf(parts[1]), aj |-> IntOf(parts[2]),
                         func |-> Some(1), c0 |-> None, c1 |-> None]
              [] OTHER -> out.res = Raise("ValueError")

\* a bond line of four tokens: the fourth token is left out of the record
C12_Witness ==
    /\ OwnDecoder
    /\ section = "bonds"
    /\ Block = << Line(<<"1", "2", "1", "0.5">>) >>
    /\ out.res = Ok(Some(<< [ai |-> 1, aj |-> 2, func |-> Some(1),
                             c0 |-> None, c1 |-> None] >>))

\* C13: MolForceFieldAtomtype.parser counts the tokens of an atom type line
\* without its trailing comment: 7 tokens give a record with at_num set, 6
\* tokens give a record with at_num none, every other count raises.
C13_AtomtypeByTokenCount ==
    (OwnDecoder /\ section = "atomtypes" /\ Len(Block) = 1) =>
        LET parts == FirstParts
            n == Len(parts)
        IN  CASE n = 7 ->
                   /\ out.res.ok
                   /\ out.res.val.val[1] =
                        [name |-> parts[1], at_num |-> Some(IntOf(parts[2])),
                         mass |-> FloatOf(parts[3]), charge |-> FloatOf(parts[4]),
                         ptype |-> parts[5], sigma |-> FloatOf(parts[6]),
                         epsilon |-> FloatOf(parts[7])]
              [] n = 6 ->
                   /\ out.res.ok
                   /\ out.res.val.val[1] =
                        [name |-> parts[1], at_num |-> None,
                         mass |-> FloatOf(parts[2]), charge |-> FloatOf(parts[3]),
                         ptype |-> parts[4], sigma |-> FloatOf(parts[5]),
                         epsilon |-> FloatOf(parts[6])]
              [] OTHER -> ~out.res.ok

\* C14: MolForceFieldDihedraltype.parser decodes a dihedral type line by
\* its token count: 8 tokens (func 4 or 9, c2 an integer) give func, c0, c1,
\* c2 set and c3..c5 unset; 11 tokens (func 3 or 5, coefficients written as
\* decimal numbers or as integers) give all of c0..c5 set; every other count
\* raises.
C14_DihedraltypeByTokenCount ==
    (OwnDecoder /\ section = "dihedraltypes" /\ Len(Block) = 1) =>
        LET parts == FirstParts
            n == Len(parts)
        IN  CASE n = 8 /\ parts[5] \in {"4", "9"} /\ parts[8] \in IntToks ->
                   /\ out.res.ok
                   /\ LET d == out.res.val.val[1]
                      IN  /\ d.func = IntOf(parts[5])
                          /\ d.c0 = Some(FloatOf(parts[6]))
                          /\ d.c1 = Some(FloatOf(parts[7]))
                          /\ d.c2.some
                          /\ d.c3 = None /\ d.c4 = None /\ d.c5 = None
              [] n = 11 /\ parts[5] \in {"3", "5"} ->
                   /\ out.res.ok
                   /\ LET d == out.res.val.val[1]
                      IN  /\ d.func = IntOf(parts[5])
                          /\ d.c0 = Some(FloatOf(parts[6]))
                          /\ d.c1 = Some(FloatOf(parts[7]))
                          /\ d.c2.some
                          /\ d.c3 = Some(FloatOf(parts[9]))
                          /\ d.c4 = Some(FloatOf(parts[10]))
                          /\ d.c5 = Some(FloatOf(parts[11]))
              [] n \notin {8, 11} -> ~out.res.ok
              [] OTHER -> TRUE

\* the coefficients of c3, c4, c5 that are set
HighSet(values) == {f \in {"c3", "c4", "c5"} : values[f].some}

\* C15: a MolForceFieldDihedraltype record exists only if func is 3 or 5 and
\* all of c0..c5 are present, or func is 4 or 9, c0 and c1 are present, c2
\* is present and an integer and none of c3..c5 is set; every other
\* construction raises a validation error.
C15_DihedraltypeInvariant ==
    (out.op = "construct" /\ out.cls = "MolForceFieldDihedraltype") =>
        LET v == out.values
            allowed ==
              \/ /\ v.func \in {3, 5}
                 /\ v.c0.some /\ v.c1.some /\ v.c2.some
                 /\ HighSet(v) = {"c3", "c4", "c5"}
              \/ /\ v.func \in {4, 9}
                 /\ v.c0.some /\ v.c1.some
                 /\ v.c2.some /\ v.c2.val.isint
                 /\ HighSet(v) = {}
        IN  /\ out.res.ok => allowed /\ out.res.val = v
            /\ ~allowed => out.res = Raise("ValidationError")

\* func 4 with a c2 that is not an integer
C15_Witness ==
    /\ out.op = "construct"
    /\ out.cls = "MolForceFieldDihedraltype"
    /\ out.values.func = 4
    /\ out.values.c0.some /\ out.values.c1.some
    /\ out.values.c2 = Some([isint |-> FALSE, v |-> 500])
    /\ HighSet(out.values) = {}
    /\ out.res = Raise("ValidationError")

\* C16: a MolTopDihedral record with func outside {3, 5} never has c3, c4
\* or c5 set, and nothing else is refused: every combination of c0, c1, c2
\* is accepted for every func, and every subset of c0..c5 for func 3 and 5.
C16_DihedralInvariant ==
    (out.op = "construct" /\ out.cls = "MolTopDihedral") =>
        /\ out.res.ok <=> (out.values.func \in {3, 5} \/ HighSet(out.values) = {})
        /\ out.res.ok => out.res.val = out.values
        /\ ~out.res.ok => out.res = Raise("ValidationError")

\* func 3 with c1 and c4 alone
C16_Witness ==
    /\ out.op = "construct"
    /\ out.cls = "MolTopDihedral"
    /\ out.values.func = 3
    /\ ~out.values.c0.some /\ out.values.c1.some /\ ~out.values.c2.some
    /\ HighSet(out.values) = {"c4"}
    /\ out.res.ok

\* the tokens of data line i of the block, comment removed
PartsOf(i) == BeforeSemi(Block[i].toks)

\* the coefficients among fields that are set in record r
CoeffSet(r, fields) == {f \in fields : r[f].some}

\* record r carries the four ids and func of the tokens parts
DihedralIds(r, parts) ==
    /\ r.ai = IntOf(parts[1]) /\ r.aj = IntOf(parts[2])
    /\ r.ak = IntOf(parts[3]) /\ r.al = IntOf(parts[4])
    /\ r.func = IntOf(parts[5])

\* record r of a dihedral line is the one its token count asks for
DihedralShape(r, parts) ==
    /\ DihedralIds(r, parts)
    /\ CoeffSet(r, {"c0", "c1", "c2", "c3", "c4", "c5"}) =
         CASE Len(parts) = 8 -> {"c0", "c1", "c2"}
           [] Len(parts) = 11 -> {"c0", "c1", "c2", "c3", "c4", "c5"}
           [] OTHER -> {}
    /\ \A k \in 0..5 :
         LET f == <<"c0", "c1", "c2", "c3", "c4", "c5">>[k + 1]
         IN  r[f].some => r[f].val = FloatOf(parts[6 + k])

\* C17 as stated: every line of a dihedrals block gives a record, shaped by
\* its token count, and never an error.
C17_DihedralByTokenCount ==
    (OwnDecoder /\ section = "dihedrals") =>
        /\ out.res.ok
        /\ out.res.val.some
        /\ Len(out.res.val.val) = Len(Block)
        /\ \A i \in 1..Len(Block) : DihedralShape(out.res.val.val[i], PartsOf(i))

\* a dihedral line that MolTopDihedral.parser cannot decode: fewer than five
\* tokens, or eleven tokens with a func other than 3 and 5
DihedralFails(parts) ==
    \/ Len(parts) < 5
    \/ Len(parts) = 11 /\ parts[5] \notin {"3", "5"}

\* C17: MolTopDihedral.parser decodes each line by its token count: 8 tokens
\* give c0..c2, 11 tokens with func 3 or 5 give all six coefficients, every
\* other count of at least five tokens gives the ids and func with all
\* coefficients unset; a line of fewer than five tokens fails the call with
\* IndexError and a line of 11 tokens with another func with ValidationError.
C17_DihedralByTokenCountOrError ==
    (OwnDecoder /\ section = "dihedrals") =>
        LET bad == {i \in 1..Len(Block) : DihedralFails(PartsOf(i))}
        IN  IF bad = {}
            THEN /\ out.res.ok
                 /\ out.res.val.some
                 /\ Len(out.res.val.val) = Len(Block)
                 /\ \A i \in 1..Len(Block) :
                      DihedralShape(out.res.val.val[i], PartsOf(i))
            ELSE out.res = Raise(IF Len(PartsOf(Min(bad))) < 5 THEN "IndexError"
                                 ELSE "ValidationError")

\* a line of 12 tokens and a line of 11 tokens of func 3, both decoded
C17_Witness ==
    /\ OwnDecoder
    /\ section = "dihedrals"
    /\ Block = <<Line(DihedralFull("9")), Line(SubSeq(DihedralFull("3"), 1, 11))>>
    /\ out.res.ok
    /\ CoeffSet(out.res.val.val[1], {"c0", "c1", "c2", "c3", "c4", "c5"}) = {}
    /\ CoeffSet(out.res.val.val[2], {"c3", "c4", "c5"}) = {"c3", "c4", "c5"}

\* record r of an angle line is the one its token count asks for
AngleShape(r, parts) ==
    /\ r.ai = IntOf(parts[1]) /\ r.aj = IntOf(parts[2])
    /\ r.ak = IntOf(parts[3]) /\ r.func = IntOf(parts[4])
    /\ IF Len(parts) = 6
       THEN r.c0 = Some(FloatOf(parts[5])) /\ r.c1 = Some(FloatOf(parts[6]))
       ELSE r.c0 = None /\ r.c1 = None

\* C18 as stated: a line of six tokens gives the full record and a line of
\* any other token count a record with ai, aj, ak, func and no coefficient.
C18_AngleByTokenCount ==
    (OwnDecoder /\ section = "angles") =>
        /\ out.res.ok
        /\ out.res.val.some
        /\ Len(out.res.val.val) = Len(Block)
        /\ \A i \in 1..Len(Block) : AngleShape(out.res.val.val[i], PartsOf(i))

\* C18: MolTopAngle.parser decodes a line of six tokens into ai, aj, ak,
\* func, c0, c1 and a line of any other count of at least four tokens into
\* ai, aj, ak, func with c0 and c1 unset; a line of fewer than four tokens
\* fails the call with IndexError.
C18_AngleByTokenCountOrError ==
    (OwnDecoder /\ section = "angles") =>
        IF \A i \in 1..Len(Block) : Len(PartsOf(i)) >= 4
        THEN /\ out.res.ok
             /\ out.res.val.some
             /\ Len(out.res.val.val) = Len(Block)
             /\ \A i \in 1..Len(Block) : AngleShape(out.res.val.val[i], PartsOf(i))
        ELSE out.res = Raise("IndexError")

\* a line of five tokens loses its coefficient, a line of six keeps both
C18_Witness ==
    /\ OwnDecoder
    /\ section = "angles"
    /\ Block = <<Line(SubSeq(AngleFull, 1, 5)), Line(SubSeq(AngleFull, 1, 6))>>
    /\ out.res.ok
    /\ out.res.val.val[1].c0 = None
    /\ out.res.val.val[2].c0 = Some(FloatOf("0.5"))

\* C25: when a data line of the block matches no arity rule of the decoder,
\* the decoder raises and returns no record list, wherever in the block the
\* line stands; no result holds the records of the other lines.
C25_NoPartialResult ==
    (OwnDecoder /\ \E i \in 1..Len(Block) : ~One(section, Block[i]).ok) =>
        ~out.res.ok

\* C29: a section whose header occurs with no data line gives an empty
\* record list, and no decoder answers none for a section that is present.
C29_EmptyBlockGivesEmptyList ==
    OwnDecoder =>
        /\ Block = <<>> => out.res = Ok(Some(<<>>))
        /\ out.res.ok => out.res.val.some

----------------------------------------------------------------------------
(* Properties of GroFile.parser *)

\* the record that the line of atom i stands for
GroAtomOf(i, velocity) ==
    [resid |-> (i + 2) \div 3,
     resname |-> <<"W", "A", "T", "E", "R">>,
     atom_name |-> GroAtomNames[((i - 1) % 3) + 1],
     index |-> i,
     x |-> [num |-> 120 + i, exp |-> 3],
     y |-> [num |-> 1624, exp |-> 3],
     z |-> [num |-> 1679, exp |-> 3],
     vx |-> IF velocity THEN [num |-> 1220 + i, exp |-> 4] ELSE [num |-> 0, exp |-> 0],
     vy |-> IF velocity THEN [num |-> -58, exp |-> 3] ELSE [num |-> 0, exp |-> 0],
     vz |-> IF velocity THEN [num |-> 434, exp |-> 4] ELSE [num |-> 0, exp |-> 0]]

\* the files whose count is their number of atom lines and that have a box
\* line: the way each atom line is written is left open
GroCounted(variants, tail) ==
    /\ tail # <<>>
    /\ content = GroFileLines(Len(variants), variants, tail)

GroAllVariants == SeqsUpTo(GroVariants, MaxGroAtoms)

\* C19: parsing a well-formed coordinate file of N atoms gives num_atoms = N
\* and N atom records, the i-th from file line 2+i, and the box of the line
\* after the atom lines; two parses of one file give the same result.
C19_GroAtomsInOrder ==
    /\ \A variants \in SeqsUpTo({"pos", "posvel"}, MaxGroAtoms), tail \in GroTails :
         GroCounted(variants, tail) =>
           \A c \in 1..Len(log) :
             log[c].file = "conf.gro" =>
               /\ log[c].res.ok
               /\ log[c].res.val.sys_name = GroTitle
               /\ log[c].res.val.num_atoms = Len(variants)
               /\ Len(log[c].res.val.gro_atoms) = Len(variants)
               /\ \A i \in 1..Len(variants) :
                    log[c].res.val.gro_atoms[i] = GroAtomOf(i, variants[i] = "posvel")
               /\ log[c].res.val.box_size =
                    <<[num |-> 18206, exp |-> 4], [num |-> 18206, exp |-> 4],
                      [num |-> 18206, exp |-> 4]>>
    /\ \A c, d \in 1..Len(log) : log[c].file = log[d].file => log[c].res = log[d].res

\* a file of two atoms followed by an empty line, parsed twice
C19_Witness ==
    /\ content = GroFileLines(2, <<"posvel", "pos">>, <<GroBoxText \o NewLine, NewLine>>)
    /\ Len(log) = 2
    /\ log[1].file = "conf.gro" /\ log[2].file = "conf.gro"
    /\ log[2].res.ok
    /\ Len(log[2].res.val.gro_atoms) = 2

\* C20: an atom line of length 45 gives zero velocities, a line of length 69
\* the three velocities of its columns, and a line of any other length makes
\* the parse fail with the format error that holds that line.
C20_VelocitiesByLength ==
    \A variants \in GroAllVariants, tail \in GroTails :
      (GroCounted(variants, tail) /\ out.op = "GroFile.parser" /\ out.file = "conf.gro") =>
         LET bad == {i \in 1..Len(variants) : Len(content[2 + i]) \notin {45, 69}}
         IN  IF bad = {}
             THEN /\ out.res.ok
                  /\ \A i \in 1..Len(variants) :
                       out.res.val.gro_atoms[i] = GroAtomOf(i, Len(content[2 + i]) = 69)
             ELSE out.res = Raise(GroFormatError(content[2 + Min(bad)]))

----------------------------------------------------------------------------
(* Properties of the line normalizer and of the aggregate builders *)

\* the files handed to the builder can all be opened
FilesOpen == \A i \in 1..Len(out.files) : out.files[i] \in DOMAIN fs

\* the lines of the listed files, one file after the other
RECURSIVE FileLines(_)
FileLines(files) ==
    IF files = <<>> THEN <<>> ELSE fs[Head(files)] \o FileLines(Tail(files))

\* the normalized content of a molecule input: no line of these inputs is
\* blank or starts flush with a marker, so only whitespace is trimmed
Normalized ==
    [i \in 1..Len(content \o FileLines(out.files)) |->
        Line((content \o FileLines(out.files))[i].toks)]

\* 0-based indices of the [ moleculetype ] headers, in file order
MolHeaders == Ascending(Occurrences(Normalized, "moleculetype"))

\* the lines from the i-th [ moleculetype ] header up to the next one
SubRange(i) ==
    SubSeq(Normalized, MolHeaders[i] + 1,
           IF i < Len(MolHeaders) THEN MolHeaders[i + 1] ELSE Len(Normalized))

\* the call is MolTop.parser on molecule inputs whose files exist and hold
\* no comment line that the normalizer keeps
MolTopApplied ==
    /\ out.op = "MolTop.parser"
    /\ FilesOpen
    /\ content \in BuilderInlines
    /\ \A i \in 1..Len(Normalized) : Normalized[i].toks[1] \notin SemiToks

RecordsOf(x) == IF x.some THEN {x.val[k] : k \in 1..Len(x.val)} ELSE {}

\* the outcomes of decoding the lines of the i-th sub-range with the line
\* decoder of a section
FromSubRange(i, kind) ==
    {CASE kind = "atoms" -> AtomLine(SubRange(i)[k])
       [] kind = "bonds" -> BondLine(SubRange(i)[k])
       [] kind = "pairs" -> PairLine(SubRange(i)[k])
       [] kind = "angles" -> AngleLine(SubRange(i)[k])
       [] kind = "dihedrals" -> DihedralLine(SubRange(i)[k]) :
     k \in 3..Len(SubRange(i))}

\* C22: every record of the i-th Molecule Topology is decoded from a line
\* between the i-th [ moleculetype ] header and the next one, and carries
\* the mark of the molecule type named by that header.
C22_RecordsFromOwnSubRange ==
    (MolTopApplied /\ out.res.ok /\ out.res.val.some) =>
        \A i \in 1..Len(out.res.val.val) :
            LET m == out.res.val.val[i]
                tag == IntOf(MolTag(m.header.name))
            IN  /\ m.header.name = SubRange(i)[2].toks[1]
                /\ \A r \in RecordsOf(Some(m.atoms)) :
                     Ok(r) \in FromSubRange(i, "atoms") /\ r.id = tag /\ r.residu = m.header.name
                /\ \A r \in RecordsOf(m.bonds) :
                     Ok(r) \in FromSubRange(i, "bonds") /\ r.ai = tag
                /\ \A r \in RecordsOf(m.pairs) :
                     Ok(r) \in FromSubRange(i, "pairs") /\ r.ai = tag
                /\ \A r \in RecordsOf(m.angles) :
                     Ok(r) \in FromSubRange(i, "angles") /\ r.ai = tag
                /\ \A r \in RecordsOf(m.dihedrals) :
                     Ok(r) \in FromSubRange(i, "dihedrals") /\ r.ai = tag

\* DPPC without dihedrals before DOPC with dihedrals: DPPC gets none
C22_Witness ==
    /\ MolTopApplied
    /\ out.files = <<>>
    /\ out.res.ok
    /\ out.res.val.some
    /\ Len(out.res.val.val) = 2
    /\ out.res.val.val[1].header.name = "DPPC"
    /\ out.res.val.val[1].dihedrals = None
    /\ out.res.val.val[2].dihedrals.some
    /\ Len(out.res.val.val[2].dihedrals.val) = 1

\* the data lines of the occurrence of a section at index s of the i-th
\* sub-range
DataBlock(i, s) == SubSeq(SubRange(i), s + 2, BlockEnd(SubRange(i), s))

\* the data lines of the first occurrence of a section in the i-th sub-range
FirstBlock(i, kind) == DataBlock(i, Min(Occurrences(SubRange(i), kind)))

\* the data lines of all occurrences of a section in the i-th sub-range
RECURSIVE AllBlocks(_, _)
AllBlocks(i, starts) ==
    IF starts = <<>> THEN <<>>
    ELSE DataBlock(i, Head(starts)) \o AllBlocks(i, Tail(starts))

\* C30: in one moleculetype sub-range atoms, bonds, pairs and angles are
\* decoded from the first occurrence of their section only, and dihedrals
\* from all occurrences of [ dihedrals ], concatenated in file order.
C30_FirstOccurrenceButDihedrals ==
    (MolTopApplied /\ out.res.ok /\ out.res.val.some) =>
        \A i \in 1..Len(out.res.val.val) :
            LET m == out.res.val.val[i]
                has(kind) == Occurrences(SubRange(i), kind) # {}
                all == AllBlocks(i, Ascending(Occurrences(SubRange(i), "dihedrals")))
            IN  /\ m.atoms = [k \in 1..Len(FirstBlock(i, "atoms")) |->
                                AtomLine(FirstBlock(i, "atoms")[k]).val]
                /\ m.bonds = IF has("bonds")
                             THEN Some(<<BondLine(FirstBlock(i, "bonds")[1]).val>>)
                             ELSE None
                /\ m.pairs = IF has("pairs")
                             THEN Some([k \in 1..Len(FirstBlock(i, "pairs")) |->
                                          PairLine(FirstBlock(i, "pairs")[k]).val])
                             ELSE None
                /\ m.angles = IF has("angles")
                              THEN Some([k \in 1..Len(FirstBlock(i, "angles")) |->
                                           AngleLine(FirstBlock(i, "angles")[k]).val])
                              ELSE None
                /\ m.dihedrals = IF has("dihedrals")
                                 THEN Some([k \in 1..Len(all) |-> DihedralLine(all[k]).val])
                                 ELSE None

\* DOPC written with [ atoms ], [ dihedrals ], [ atoms ], [ dihedrals ] or
\* with [ atoms ], [ dihedrals ], [ dihedrals ], [ atoms ]
C30_Witness ==
    /\ MolTopApplied
    /\ out.res.ok
    /\ out.res.val.some
    /\ \E i \in 1..Len(out.res.val.val) :
         /\ Cardinality(Occurrences(SubRange(i), "atoms")) = 2
         /\ Cardinality(Occurrences(SubRange(i), "dihedrals")) = 2
         /\ Len(out.res.val.val[i].atoms) = 1
         /\ out.res.val.val[i].atoms[1].atom_type = "P5"
         /\ Len(out.res.val.val[i].dihedrals.val) = 2
         /\ out.res.val.val[i].dihedrals.val[1].aj = 3
         /\ out.res.val.val[i].dihedrals.val[2].aj = 4

\* the inline lines followed by the lines of the listed files, as written
AllLines == content \o FileLines(out.files)

\* a [ defaults ] header among the inline lines and the listed files; the
\* headers of these inputs are never comment lines, so the normalizer keeps
\* every one of them
HasDefaults == \E i \in 1..Len(AllLines) : MatchesSection(AllLines[i], "defaults")

\* C23: MolForceField.parser raises and returns no Force Field whenever the
\* normalized content has no [ defaults ] section, whatever else it holds.
C23_NoDefaultsRaises ==
    out.op = "MolForceField.parser" =>
        /\ ~FilesOpen => out.res = Raise("FileNotFoundError")
        /\ (FilesOpen /\ ~HasDefaults) => out.res = Raise("ValueError")

\* an [ atomtypes ] section inline, a molecule type in a.itp, no [ defaults ]
C23_Witness ==
    /\ out.op = "MolForceField.parser"
    /\ out.files = <<PathA>>
    /\ FilesOpen
    /\ ~HasDefaults
    /\ Occurrences(AllLines, "atomtypes") # {}
    /\ Occurrences(AllLines, "moleculetype") # {}
    /\ out.res = Raise("ValueError")

\* a line that is empty or begins with a marker once it is trimmed
TrimmedIsDropped(l) ==
    \/ l.toks = <<>>
    \/ l.toks[1] \in SemiToks \cup StarToks \cup HashToks

\* the trimmed lines of ls that are not dropped, in their order
KeptTrimmed(ls) ==
    LET kept == SelectSeq(ls, LAMBDA l : ~TrimmedIsDropped(l))
    IN  [i \in 1..Len(kept) |-> Line(kept[i].toks)]

\* C24: clean_lines returns the trimmed inline lines followed by the trimmed
\* lines of each file in the order listed, and drops a line exactly when,
\* once trimmed, it is empty or begins with ';', '*' or '#'.
C24_DropsTrimmedComments ==
    (out.op = "clean_lines" /\ FilesOpen) => out.res = Ok(KeptTrimmed(AllLines))

====
